---- MODULE Spec2Model ----
\* A model of github.com/stackus/sessions: the codec pipeline (serialize,
\* encrypt, authenticate, base64), the codec list of a SessionProxy and the
\* cookie store that sits on top of it.
\*
\* Byte strings are sequences of integers 0..255 (ASCII codes), so that the
\* base64 layers, the '|' separators and the decimal timestamp are the real
\* conversions and not identities.
EXTENDS Integers, Sequences, FiniteSets, TLC

VARIABLES
    codecs,   \* sessionManager.codecs / SessionProxy.codecs: the ordered codec list
    now,      \* what the time source returns (time.Now().UTC().Unix())
    tok,      \* the token in flight (a cookie value held by the client), or NoToken
    last,     \* the call that has just returned: its arguments, result and steps
    resp,     \* the Set-Cookie headers written to the response so far
    mgr,      \* the sessionManager: its store and its CookieOptions
    files,    \* the files under the root of the FileSystemStore: ID -> content
    ids,      \* how many IDs randomID has delivered so far
    reg,      \* the registry of the request being served: name -> *Session
    served,   \* the responses sent so far, each the cookies it set
    call,     \* the manager or session call that has just returned
    fsMutex,  \* fsMutex of store.go: the goroutine that holds it, or Unlocked
    procs,    \* the goroutines inside FileSystemStore.read, write or delete
    flash,    \* a Flash value: its flashes, now and keep maps
    log       \* the calls made on the Flash so far, with what they returned

\* The variables of the session manager and its stores.
mvars == <<mgr, files, ids, reg, served, call>>

\* The variables of the file lock and of the flash messages.
fsvars == <<fsMutex, procs>>
flvars == <<flash, log>>

vars == <<codecs, now, tok, last, resp, mgr, files, ids, reg, served, call,
          fsMutex, procs, flash, log>>

----------------------------------------------------------------------------
\* Bounds of the model (not program constants).

\* The time source returns 0..MaxTime; when a session manager is running,
\* StartTime..StartTime + MaxTime (the clock is past the first seconds of
\* the epoch).
MaxTime == 2
StartTime == 2

\* randomID delivers at most MaxIDs IDs.
MaxIDs == 2

\* A handler saves at most MaxSaves times while serving one request.
MaxSaves == 1

\* The client sends at most MaxRequests requests; the handler of the last
\* one only reads the session.
MaxRequests == 3

----------------------------------------------------------------------------
\* Bytes and small helpers.

Pipe == 124
PadChar == 61
Quote == 34
Backslash == 92
LF == 10
CR == 13
Minus == 45
Plus == 43
Zero == 48

RECURSIVE Flatten(_)
\* The concatenation of a sequence of sequences.
Flatten(ss) == IF ss = <<>> THEN <<>> ELSE Head(ss) \o Flatten(Tail(ss))

\* s[a..b] as Go's s[a-1:b]; empty when b < a.
Slice(s, a, b) == IF b < a THEN <<>> ELSE SubSeq(s, a, b)

RECURSIVE Xor(_, _, _)
\* Bitwise exclusive or of the low `bits` bits of a and b.
Xor(a, b, bits) ==
    IF bits = 0 THEN 0
    ELSE (((a % 2) + (b % 2)) % 2) + 2 * Xor(a \div 2, b \div 2, bits - 1)

RECURSIVE Sum(_)
Sum(s) == IF s = <<>> THEN 0 ELSE Head(s) + Sum(Tail(s))

----------------------------------------------------------------------------
\* Errors. An error value is the sequence of the sentinel errors joined in
\* it; nil is the empty sequence. errors.Is(err, E) is Is(err, E).

nil == <<>>
ErrHashKeyNotSet == <<"ErrHashKeyNotSet">>
ErrEncodedLengthTooLong == <<"ErrEncodedLengthTooLong">>
ErrSerializeFailed == <<"ErrSerializeFailed">>
ErrDeserializeFailed == <<"ErrDeserializeFailed">>
ErrHMACIsInvalid == <<"ErrHMACIsInvalid">>
ErrTimestampIsInvalid == <<"ErrTimestampIsInvalid">>
ErrTimestampIsTooNew == <<"ErrTimestampIsTooNew">>
ErrTimestampIsExpired == <<"ErrTimestampIsExpired">>
ErrCreatingBlockCipher == <<"ErrCreatingBlockCipher">>
ErrGeneratingIV == <<"ErrGeneratingIV">>
ErrDecryptionFailed == <<"ErrDecryptionFailed">>
ErrNoCodecs == <<"ErrNoCodecs">>
ErrNoResponseWriter == <<"ErrNoResponseWriter">>
\* Errors of the standard library that the code passes on unwrapped.
CorruptInputError == <<"base64.CorruptInputError">>
KeySizeError == <<"aes.KeySizeError">>
JsonError == <<"json.Error">>
GobError == <<"gob.Error">>
RandError == <<"rand.Error">>

\* errors.Join: the non-nil errors in order, nil when there is none.
Join(errs) == Flatten(errs)

Is(err, target) == \E i \in 1..Len(err) : err[i] = target[1]

----------------------------------------------------------------------------
\* base64.URLEncoding (padded, not strict), as codec.encode and codec.decode
\* use it.

\* The URL-safe alphabet: A-Z a-z 0-9 - _
Alphabet(v) ==
    IF v < 26 THEN 65 + v
    ELSE IF v < 52 THEN 97 + (v - 26)
    ELSE IF v < 62 THEN 48 + (v - 52)
    ELSE IF v = 62 THEN 45
    ELSE 95

\* The decode map: the 6-bit value of a character, -1 for a character
\* outside the alphabet.
DecodeMap(ch) ==
    IF ch >= 65 /\ ch <= 90 THEN ch - 65
    ELSE IF ch >= 97 /\ ch <= 122 THEN ch - 97 + 26
    ELSE IF ch >= 48 /\ ch <= 57 THEN ch - 48 + 52
    ELSE IF ch = 45 THEN 62
    ELSE IF ch = 95 THEN 63
    ELSE -1

\* codec.encode: base64.URLEncoding.Encode of value.
encode(value) ==
    LET n == Len(value)
        at(i) == IF i <= n THEN value[i] ELSE 0
        char(k) ==
            LET g == (k - 1) \div 4
                j == (k - 1) % 4
                b0 == at(3 * g + 1)
                b1 == at(3 * g + 2)
                b2 == at(3 * g + 3)
            IN  IF j = 0 THEN Alphabet(b0 \div 4)
                ELSE IF j = 1 THEN Alphabet((b0 % 4) * 16 + (b1 \div 16))
                ELSE IF j = 2 THEN
                    IF 3 * g + 2 > n THEN PadChar
                    ELSE Alphabet((b1 % 16) * 4 + (b2 \div 64))
                ELSE
                    IF 3 * g + 3 > n THEN PadChar
                    ELSE Alphabet(b2 % 64)
    IN  [k \in 1..(((n + 2) \div 3) * 4) |-> char(k)]

\* The decoder skips '\r' and '\n' wherever they stand.
SkipNewlines(s) == SelectSeq(s, LAMBDA ch : ch # LF /\ ch # CR)

\* codec.decode: base64.URLEncoding.Decode of value. The input is quanta of
\* four alphabet characters; the last quantum may end in "=" or "==". The
\* bits of the last character that belong to no output byte are not checked
\* (the encoding is not Strict()).
decode(value) ==
    LET s == SkipNewlines(value)
        n == Len(s)
        pad == IF n >= 1 /\ s[n] = PadChar
               THEN (IF n >= 2 /\ s[n - 1] = PadChar THEN 2 ELSE 1)
               ELSE 0
        wellFormed ==
            /\ n % 4 = 0
            /\ \A i \in 1..(n - pad) : DecodeMap(s[i]) # -1
        outLen == (n \div 4) * 3 - pad
        byte(k) ==
            LET g == (k - 1) \div 3
                j == (k - 1) % 3
                v0 == DecodeMap(s[4 * g + 1])
                v1 == DecodeMap(s[4 * g + 2])
                v2 == DecodeMap(s[4 * g + 3])
                v3 == DecodeMap(s[4 * g + 4])
            IN  IF j = 0 THEN v0 * 4 + (v1 \div 16)
                ELSE IF j = 1 THEN (v1 % 16) * 16 + (v2 \div 4)
                ELSE (v2 % 4) * 64 + v3
    IN  IF wellFormed
        THEN [err |-> nil, data |-> [k \in 1..outLen |-> byte(k)]]
        ELSE [err |-> CorruptInputError, data |-> <<>>]

----------------------------------------------------------------------------
\* fmt.Sprintf("%d", t) and strconv.ParseInt(s, 10, 64).

RECURSIVE Digits(_)
Digits(n) == IF n < 10 THEN <<Zero + n>> ELSE Digits(n \div 10) \o <<Zero + (n % 10)>>

FormatInt(t) == IF t < 0 THEN <<Minus>> \o Digits(0 - t) ELSE Digits(t)

IsDigit(ch) == ch >= Zero /\ ch <= Zero + 9

RECURSIVE DigitsValue(_)
DigitsValue(s) ==
    IF s = <<>> THEN 0
    ELSE DigitsValue(SubSeq(s, 1, Len(s) - 1)) * 10 + (s[Len(s)] - Zero)

\* [err, value]: an optional sign and at least one decimal digit.
ParseInt(s) ==
    LET signed == Len(s) >= 1 /\ s[1] \in {Minus, Plus}
        ds == IF signed THEN Tail(s) ELSE s
    IN  IF ds = <<>> \/ \E i \in 1..Len(ds) : ~IsDigit(ds[i])
        THEN [err |-> ErrTimestampIsInvalid, value |-> 0]
        ELSE [err |-> nil,
              value |-> IF signed /\ s[1] = Minus THEN 0 - DigitsValue(ds)
                        ELSE DigitsValue(ds)]

\* bytes.SplitN(data, "|", 3): at most three parts, the last one unsplit.
SplitN3(data) ==
    LET pipes == {i \in 1..Len(data) : data[i] = Pipe}
        first == CHOOSE i \in pipes : \A k \in pipes : i <= k
        rest == {i \in pipes : i > first}
        second == CHOOSE i \in rest : \A k \in rest : i <= k
    IN  IF pipes = {} THEN <<data>>
        ELSE IF rest = {} THEN
            <<Slice(data, 1, first - 1), Slice(data, first + 1, Len(data))>>
        ELSE <<Slice(data, 1, first - 1),
               Slice(data, first + 1, second - 1),
               Slice(data, second + 1, Len(data))>>

----------------------------------------------------------------------------
\* Session values and serializers. A value is a Go string of plain letters
\* (kind "string") or a value no serializer can represent, such as a channel
\* (kind "chan").

StringValue(bytes) == [kind |-> "string", s |-> bytes]
ChanValue == [kind |-> "chan", s |-> <<>>]
\* What a destination holds when nothing was decoded into it.
NoValue == [kind |-> "none", s |-> <<>>]

\* JsonSerializer.Serialize: json.Marshal of a string without characters
\* that need escaping is the string in double quotes.
JsonSerialize(src) ==
    IF src.kind = "string"
    THEN [err |-> nil, data |-> <<Quote>> \o src.s \o <<Quote>>]
    ELSE [err |-> JsonError, data |-> <<>>]

\* JsonSerializer.Deserialize into a *string: a quoted string without
\* escapes; anything else is rejected.
JsonDeserialize(data) ==
    LET n == Len(data)
        ok == /\ n >= 2
              /\ data[1] = Quote
              /\ data[n] = Quote
              /\ \A i \in 2..(n - 1) :
                    data[i] >= 32 /\ data[i] < 128 /\ data[i] \notin {Quote, Backslash}
    IN  IF ok THEN [err |-> nil, value |-> StringValue(Slice(data, 2, n - 1))]
        ELSE [err |-> JsonError, value |-> NoValue]

\* The gob type id of string (6), as the encoder writes it (a signed int).
GobStringId == 12

\* GobSerializer.Serialize: the gob stream of one short string is the
\* message length, the type id, a zero delta, the string length, the bytes.
GobSerialize(src) ==
    IF src.kind = "string"
    THEN [err |-> nil,
          data |-> <<Len(src.s) + 3, GobStringId, 0, Len(src.s)>> \o src.s]
    ELSE [err |-> GobError, data |-> <<>>]

\* GobSerializer.Deserialize into a *string.
GobDeserialize(data) ==
    LET n == Len(data)
        ok == /\ n >= 4
              /\ data[1] = n - 1
              /\ data[2] = GobStringId
              /\ data[3] = 0
              /\ data[4] = n - 4
    IN  IF ok THEN [err |-> nil, value |-> StringValue(Slice(data, 5, n))]
        ELSE [err |-> GobError, value |-> NoValue]

Serialize(serializer, src) ==
    IF serializer = "json" THEN JsonSerialize(src) ELSE GobSerialize(src)

Deserialize(serializer, data) ==
    IF serializer = "json" THEN JsonDeserialize(data) ELSE GobDeserialize(data)

----------------------------------------------------------------------------
\* The keyed MAC and the stream cipher. HMAC is modelled as an ideal MAC: a
\* tag that determines the hash function, the key and the message, so two
\* tags are equal only if all three are. The key stream of CTR mode is a
\* fixed function of the block key, the IV and the position.

\* hash.Hash.Size() of sha256.New and sha512.New
HashSize(hashFn) == IF hashFn = "sha256" THEN 32 ELSE 64

\* createMac that sums the hash without writing the value into it.
createMac_NoWrite(hashFn, hashKey, value) == <<HashSize(hashFn)>> \o hashKey

\* codec.createMac with h = hmac.New(hashFn, hashKey)
createMac(hashFn, hashKey, value) == <<HashSize(hashFn)>> \o hashKey \o value

\* codec.verifyMac: subtle.ConstantTimeCompare of the two tags
verifyMac(hashFn, hashKey, value, mac) ==
    IF mac = createMac(hashFn, hashKey, value) THEN nil ELSE ErrHMACIsInvalid

\* aes.BlockSize
AesBlockSize == 16

NoBlock == [key |-> <<>>, size |-> 0]

\* aes.NewCipher: keys of 16, 24 or 32 bytes.
NewCipher(key) ==
    IF Len(key) \in {16, 24, 32}
    THEN [err |-> nil, block |-> [key |-> key, size |-> AesBlockSize]]
    ELSE [err |-> KeySizeError, block |-> NoBlock]

KeyStream(block, iv, i) == (Sum(block.key) * 31 + Sum(iv) * 17 + i * 7 + 3) % 256

\* cipher.NewCTR(block, iv).XORKeyStream(data, data)
XORKeyStream(block, iv, data) ==
    [i \in 1..Len(data) |-> Xor(data[i], KeyStream(block, iv, i), 8)]

\* What io.ReadFull(rand.Reader, iv) delivers when it fails.
NoIV == <<>>

\* codec.encrypt; iv is what the random source delivered.
encrypt(block, data, iv) ==
    IF iv = NoIV THEN [err |-> Join(<<ErrGeneratingIV, RandError>>), data |-> <<>>]
    ELSE [err |-> nil, data |-> iv \o XORKeyStream(block, iv, data)]

\* decrypt that leaves the IV in front of the plaintext.
decrypt_KeepIV(block, data) ==
    IF Len(data) < block.size THEN [err |-> ErrDecryptionFailed, data |-> <<>>]
    ELSE [err |-> nil,
          data |-> Slice(data, 1, block.size)
                   \o XORKeyStream(block, Slice(data, 1, block.size),
                                   Slice(data, block.size + 1, Len(data)))]

\* codec.decrypt
decrypt(block, data) ==
    IF Len(data) < block.size THEN [err |-> ErrDecryptionFailed, data |-> <<>>]
    ELSE [err |-> nil,
          data |-> XORKeyStream(block, Slice(data, 1, block.size),
                                Slice(data, block.size + 1, Len(data)))]

----------------------------------------------------------------------------
\* Codec construction.

DefaultMaxLength == 4096
DefaultMaxAge == 86400 * 30

\* Codec options, as NewCodec receives them.
WithMaxAge(age) == [opt |-> "MaxAge", v |-> age]
WithMinAge(age) == [opt |-> "MinAge", v |-> age]
WithMaxLength(length) == [opt |-> "MaxLength", v |-> length]
WithHashFn(fn) == [opt |-> "HashFn", v |-> fn]
WithBlockKey(key) == [opt |-> "BlockKey", v |-> key]
WithSerializer(ser) == [opt |-> "Serializer", v |-> ser]

\* option.configureCodec(c)
configureCodec(option, c) ==
    IF option.opt = "MaxAge" THEN [c EXCEPT !.maxAge = option.v]
    ELSE IF option.opt = "MinAge" THEN [c EXCEPT !.minAge = option.v]
    ELSE IF option.opt = "MaxLength" THEN [c EXCEPT !.maxLength = option.v]
    ELSE IF option.opt = "HashFn" THEN [c EXCEPT !.hashFn = option.v]
    ELSE IF option.opt = "Serializer" THEN [c EXCEPT !.serializer = option.v]
    ELSE LET r == NewCipher(option.v)
         IN  IF r.err # nil
             THEN [c EXCEPT !.block = r.block,
                            !.err = Join(<<ErrCreatingBlockCipher, r.err>>)]
             ELSE [c EXCEPT !.block = r.block]

RECURSIVE ApplyOptions(_, _)
ApplyOptions(options, c) ==
    IF options = <<>> THEN c
    ELSE ApplyOptions(Tail(options), configureCodec(Head(options), c))

\* NewCodec without the check of the hash key.
NewCodec_NoKeyCheck(hashKey, options) ==
    ApplyOptions(options,
                 [hashKey |-> hashKey,
                  hashFn |-> "sha256",
                  block |-> NoBlock,
                  maxLength |-> DefaultMaxLength,
                  maxAge |-> DefaultMaxAge,
                  minAge |-> 0,
                  serializer |-> "json",
                  err |-> nil])

NewCodec(hashKey, options) ==
    LET c == [hashKey |-> hashKey,
              hashFn |-> "sha256",
              block |-> NoBlock,
              maxLength |-> DefaultMaxLength,
              maxAge |-> DefaultMaxAge,
              minAge |-> 0,
              serializer |-> "json",
              err |-> nil]
    IN  IF Len(hashKey) = 0 THEN [c EXCEPT !.err = ErrHashKeyNotSet]
        ELSE ApplyOptions(options, c)

----------------------------------------------------------------------------
\* codec.Encode and codec.Decode. Both return, with the result, the steps
\* they went through, in order; "timestamp" is a read of the time source.

EncodeResult(err, data, steps) == [err |-> err, data |-> data, steps |-> steps]

\* The length check of Encode (step 5), and an Encode that checks nothing.
encodedTooLong_Never(c, data) == FALSE

encodedTooLong(c, data) == c.maxLength # 0 /\ Len(data) > c.maxLength

\* codec.Encode(name, src); t is what the time source returns, iv what the
\* random source delivers if it is asked.
Encode(c, name, src, t, iv) ==
    IF c.err # nil THEN EncodeResult(c.err, <<>>, <<>>)
    ELSE
    LET ser == Serialize(c.serializer, src) IN
    IF ser.err # nil
    THEN EncodeResult(Join(<<ErrSerializeFailed, ser.err>>), <<>>, <<"serialize">>)
    ELSE
    LET enc == IF c.block # NoBlock THEN encrypt(c.block, ser.data, iv)
               ELSE [err |-> nil, data |-> ser.data]
        s2 == IF c.block # NoBlock THEN <<"serialize", "encrypt">> ELSE <<"serialize">>
    IN
    IF enc.err # nil THEN EncodeResult(enc.err, <<>>, s2)
    ELSE
    LET payload == encode(enc.data)
        signed == name \o <<Pipe>> \o FormatInt(t) \o <<Pipe>> \o payload
        mac == createMac(c.hashFn, c.hashKey, signed)
        data == Slice(signed \o <<Pipe>> \o mac, Len(name) + 2,
                      Len(signed) + 1 + Len(mac))
        out == encode(data)
        s5 == s2 \o <<"encode", "timestamp", "mac", "encode", "length">>
    IN
    IF encodedTooLong(c, out)
    THEN EncodeResult(ErrEncodedLengthTooLong, <<>>, s5)
    ELSE EncodeResult(nil, out, s5)

DecodeResult(err, value, steps) == [err |-> err, value |-> value, steps |-> steps]

\* The length check of Decode (step 1), and a Decode that checks nothing.
lengthExceeded_Never(c, data) == FALSE

lengthExceeded(c, data) == c.maxLength # 0 /\ Len(data) > c.maxLength

\* The string Decode authenticates: the name the caller supplies, '|', and
\* the decoded token up to the separator in front of the MAC.
signedString(name, data, mac) ==
    name \o <<Pipe>> \o Slice(data, 1, Len(data) - Len(mac) - 1)

\* The two age checks of Decode: t1 is the token's timestamp, t2 the time.
timestampTooNew_Inclusive(c, t1, t2) == c.minAge # 0 /\ t1 >= t2 - c.minAge

timestampTooNew(c, t1, t2) == c.minAge # 0 /\ t1 > t2 - c.minAge

timestampExpired(c, t1, t2) == c.maxAge # 0 /\ t1 < t2 - c.maxAge

\* Steps 2 and 3 of Decode: base64, split, MAC. parts is the split token.
decodeAuthentic(c, name, src) ==
    LET outer == decode(src) IN
    IF outer.err # nil
    THEN [err |-> outer.err, steps |-> <<"decode">>, parts |-> <<>>]
    ELSE
    LET parts == SplitN3(outer.data) IN
    IF Len(parts) # 3
    THEN [err |-> ErrHMACIsInvalid, steps |-> <<"decode", "split">>, parts |-> <<>>]
    ELSE [err |-> verifyMac(c.hashFn, c.hashKey,
                            signedString(name, outer.data, parts[3]), parts[3]),
          steps |-> <<"decode", "split", "mac">>, parts |-> parts]

\* A decodeAge that reads the time source before it parses the timestamp.
decodeAge_ReadsFirst(c, timestampPart, t2) ==
    LET t1 == ParseInt(timestampPart) IN
    IF t1.err # nil
    THEN [err |-> ErrTimestampIsInvalid, steps |-> <<"timestamp", "parse">>]
    ELSE IF timestampTooNew(c, t1.value, t2)
    THEN [err |-> ErrTimestampIsTooNew, steps |-> <<"timestamp", "parse", "age">>]
    ELSE IF timestampExpired(c, t1.value, t2)
    THEN [err |-> ErrTimestampIsExpired, steps |-> <<"timestamp", "parse", "age">>]
    ELSE [err |-> nil, steps |-> <<"timestamp", "parse", "age">>]

\* Step 4 of Decode: parse the timestamp, read the time, check the age.
decodeAge(c, timestampPart, t2) ==
    LET t1 == ParseInt(timestampPart) IN
    IF t1.err # nil
    THEN [err |-> ErrTimestampIsInvalid, steps |-> <<"parse">>]
    ELSE IF timestampTooNew(c, t1.value, t2)
    THEN [err |-> ErrTimestampIsTooNew, steps |-> <<"parse", "timestamp", "age">>]
    ELSE IF timestampExpired(c, t1.value, t2)
    THEN [err |-> ErrTimestampIsExpired, steps |-> <<"parse", "timestamp", "age">>]
    ELSE [err |-> nil, steps |-> <<"parse", "timestamp", "age">>]

\* Steps 5 and 6 of Decode, with the base64 decoding of the payload before
\* them: decrypt, deserialize.
decodePayload(c, payloadPart) ==
    LET inner == decode(payloadPart) IN
    IF inner.err # nil
    THEN DecodeResult(inner.err, NoValue, <<"decode">>)
    ELSE
    LET dec == IF c.block # NoBlock THEN decrypt(c.block, inner.data)
               ELSE [err |-> nil, data |-> inner.data]
        s5 == IF c.block # NoBlock THEN <<"decode", "decrypt">> ELSE <<"decode">>
    IN
    IF dec.err # nil THEN DecodeResult(dec.err, NoValue, s5)
    ELSE
    LET des == Deserialize(c.serializer, dec.data) IN
    IF des.err # nil
    THEN DecodeResult(Join(<<ErrDeserializeFailed, des.err>>), NoValue,
                      s5 \o <<"deserialize">>)
    ELSE DecodeResult(nil, des.value, s5 \o <<"deserialize">>)

\* Decode with the age check moved in front of the MAC verification.
Decode_AgeFirst(c, name, src, t2) ==
    IF c.err # nil THEN DecodeResult(c.err, NoValue, <<>>)
    ELSE IF lengthExceeded(c, src)
    THEN DecodeResult(ErrEncodedLengthTooLong, NoValue, <<"length">>)
    ELSE
    LET auth == decodeAuthentic(c, name, src)
        outer == decode(src)
        parts == SplitN3(outer.data)
        age == decodeAge(c, parts[1], t2)
    IN
    IF outer.err # nil \/ Len(parts) # 3
    THEN DecodeResult(auth.err, NoValue, <<"length">> \o auth.steps)
    ELSE IF age.err # nil
    THEN DecodeResult(age.err, NoValue, <<"length", "decode", "split">> \o age.steps)
    ELSE IF auth.err # nil
    THEN DecodeResult(auth.err, NoValue,
                      <<"length", "decode", "split">> \o age.steps \o <<"mac">>)
    ELSE
    LET r == decodePayload(c, auth.parts[2]) IN
    DecodeResult(r.err, r.value,
                 <<"length", "decode", "split">> \o age.steps \o <<"mac">> \o r.steps)

\* codec.Decode(name, src, dst); t2 is what the time source returns if it is
\* asked. value is what dst holds afterwards (NoValue: left as it was).
Decode(c, name, src, t2) ==
    IF c.err # nil THEN DecodeResult(c.err, NoValue, <<>>)
    ELSE IF lengthExceeded(c, src)
    THEN DecodeResult(ErrEncodedLengthTooLong, NoValue, <<"length">>)
    ELSE
    LET auth == decodeAuthentic(c, name, src) IN
    IF auth.err # nil
    THEN DecodeResult(auth.err, NoValue, <<"length">> \o auth.steps)
    ELSE
    LET age == decodeAge(c, auth.parts[1], t2) IN
    IF age.err # nil
    THEN DecodeResult(age.err, NoValue, <<"length">> \o auth.steps \o age.steps)
    ELSE
    LET r == decodePayload(c, auth.parts[2]) IN
    DecodeResult(r.err, r.value, <<"length">> \o auth.steps \o age.steps \o r.steps)

----------------------------------------------------------------------------
\* SessionProxy.Decode and SessionProxy.Encode over the codec list.

\* One codec's answer inside a proxy call.
Attempt(i, r) == [codec |-> i, err |-> r.err, steps |-> r.steps]

\* What the proxy returns when no codec succeeded: errors.Join(errs...)
joinErrors_LastOnly(tried) == tried[Len(tried)].err

joinErrors(tried) == Join([k \in 1..Len(tried) |-> tried[k].err])

\* SessionProxy.Decode that asks the first codec only.
FirstOnlyResult(r) ==
    [err |-> r.err, value |-> r.value, data |-> <<>>,
     used |-> IF r.err = nil THEN 1 ELSE 0, attempts |-> <<Attempt(1, r)>>]

ProxyDecode_FirstOnly(cs, name, data, t) ==
    IF Len(cs) = 0
    THEN [err |-> ErrNoCodecs, value |-> NoValue, data |-> <<>>, used |-> 0,
          attempts |-> <<>>]
    ELSE FirstOnlyResult(Decode(cs[1], name, data, t))

RECURSIVE ProxyDecodeFrom(_, _, _, _, _, _)
\* The body of the loop of SessionProxy.Decode for codec i, whose Decode
\* returned r: return on success, otherwise append the error and go on.
ProxyDecodeTry(cs, i, name, data, t, tried, r) ==
    IF r.err = nil
    THEN [err |-> nil, value |-> r.value, data |-> <<>>, used |-> i,
          attempts |-> Append(tried, Attempt(i, r))]
    ELSE ProxyDecodeFrom(cs, i + 1, name, data, t, Append(tried, Attempt(i, r)))

\* The loop of SessionProxy.Decode from codec i on; tried holds the attempts
\* so far (the errs slice, with the codec that gave each error).
ProxyDecodeFrom(cs, i, name, data, t, tried) ==
    IF i > Len(cs)
    THEN [err |-> joinErrors(tried),
          value |-> NoValue, data |-> <<>>, used |-> 0, attempts |-> tried]
    ELSE ProxyDecodeTry(cs, i, name, data, t, tried, Decode(cs[i], name, data, t))

\* SessionProxy.Decode(data, dst) with sp.codecs = cs and sp.options.Name = name
ProxyDecode(cs, name, data, t) ==
    IF Len(cs) = 0
    THEN [err |-> ErrNoCodecs, value |-> NoValue, data |-> <<>>, used |-> 0,
          attempts |-> <<>>]
    ELSE ProxyDecodeFrom(cs, 1, name, data, t, <<>>)

RECURSIVE ProxyEncodeFrom(_, _, _, _, _, _, _)
\* The body of the loop of SessionProxy.Encode for codec i, whose Encode
\* returned r: return on success, otherwise append the error and go on.
ProxyEncodeTry(cs, i, name, src, t, ivs, tried, r) ==
    IF r.err = nil
    THEN [err |-> nil, value |-> NoValue, data |-> r.data, used |-> i,
          attempts |-> Append(tried, Attempt(i, r))]
    ELSE ProxyEncodeFrom(cs, i + 1, name, src, t, ivs, Append(tried, Attempt(i, r)))

\* The loop of SessionProxy.Encode from codec i on; ivs[i] is what the random
\* source delivers to codec i.
ProxyEncodeFrom(cs, i, name, src, t, ivs, tried) ==
    IF i > Len(cs)
    THEN [err |-> joinErrors(tried),
          value |-> NoValue, data |-> <<>>, used |-> 0, attempts |-> tried]
    ELSE ProxyEncodeTry(cs, i, name, src, t, ivs, tried,
                        Encode(cs[i], name, src, t, ivs[i]))

\* SessionProxy.Encode(src) with sp.codecs = cs and sp.options.Name = name
ProxyEncode(cs, name, src, t, ivs) ==
    IF Len(cs) = 0
    THEN [err |-> ErrNoCodecs, value |-> NoValue, data |-> <<>>, used |-> 0,
          attempts |-> <<>>]
    ELSE ProxyEncodeFrom(cs, 1, name, src, t, ivs, <<>>)

\* NewCookieOptions()
NewCookieOptions ==
    [Name |-> <<>>, Path |-> "/", Domain |-> "", MaxAge |-> DefaultMaxAge,
     Secure |-> FALSE, HttpOnly |-> TRUE, Partitioned |-> FALSE,
     SameSite |-> "Lax"]

\* An http.Cookie as SessionProxy.Save and Delete build it from the options;
\* expires is the Unix time of Expires, hasExpires whether Expires is set.
Cookie(options, value, age, hasExpires, expires) ==
    [Name |-> options.Name, Value |-> value, Path |-> options.Path,
     Domain |-> options.Domain, MaxAge |-> age,
     HasExpires |-> hasExpires, Expires |-> expires,
     Secure |-> options.Secure, HttpOnly |-> options.HttpOnly,
     Partitioned |-> options.Partitioned, SameSite |-> options.SameSite]

\* SessionProxy.Save that keeps the value in a cookie with a negative max-age.
ProxySave_KeepValue(options, w, value, t) ==
    IF ~w THEN [err |-> ErrNoResponseWriter, cookies |-> <<>>]
    ELSE IF options.MaxAge > 0
    THEN [err |-> nil,
          cookies |-> <<Cookie(options, value, options.MaxAge, TRUE,
                               t + options.MaxAge)>>]
    ELSE IF options.MaxAge < 0
    THEN [err |-> nil,
          cookies |-> <<Cookie(options, value, options.MaxAge, TRUE, 1)>>]
    ELSE [err |-> nil,
          cookies |-> <<Cookie(options, value, options.MaxAge, FALSE, 0)>>]

\* SessionProxy.Save that sets an expiry in the zero case too.
ProxySave_ExpiresAlways(options, w, value, t) ==
    IF ~w THEN [err |-> ErrNoResponseWriter, cookies |-> <<>>]
    ELSE IF options.MaxAge < 0
    THEN [err |-> nil,
          cookies |-> <<Cookie(options, <<>>, options.MaxAge, TRUE, 1)>>]
    ELSE [err |-> nil,
          cookies |-> <<Cookie(options, value, options.MaxAge, TRUE,
                               t + options.MaxAge)>>]

\* SessionProxy.Save(value); w is whether sp.resp is set, t the time. The
\* result is the error and the cookies handed to http.SetCookie.
ProxySave(options, w, value, t) ==
    IF ~w THEN [err |-> ErrNoResponseWriter, cookies |-> <<>>]
    ELSE IF options.MaxAge > 0
    THEN [err |-> nil,
          cookies |-> <<Cookie(options, value, options.MaxAge, TRUE,
                               t + options.MaxAge)>>]
    ELSE IF options.MaxAge < 0
    THEN [err |-> nil,
          cookies |-> <<Cookie(options, <<>>, options.MaxAge, TRUE, 1)>>]
    ELSE [err |-> nil,
          cookies |-> <<Cookie(options, value, options.MaxAge, FALSE, 0)>>]

\* SessionProxy.Delete() that expires the options of the proxy as well.
ProxyDelete_Expire(options, w) ==
    IF ~w THEN [err |-> ErrNoResponseWriter, cookies |-> <<>>,
                options |-> options]
    ELSE [err |-> nil, cookies |-> <<Cookie(options, <<>>, -1, TRUE, 1)>>,
          options |-> [options EXCEPT !.MaxAge = -1]]

\* SessionProxy.Delete(): the error, the cookies handed to http.SetCookie
\* and the options of the proxy after the call.
ProxyDelete(options, w) ==
    IF ~w THEN [err |-> ErrNoResponseWriter, cookies |-> <<>>,
                options |-> options]
    ELSE [err |-> nil, cookies |-> <<Cookie(options, <<>>, -1, TRUE, 1)>>,
          options |-> options]

----------------------------------------------------------------------------
\* The stores. A store method works on a SessionProxy: the fields ID, Values
\* and IsNew, the options of the session, and w (whether resp is set). Its
\* result is the error, the proxy as the method leaves it, the files as it
\* leaves them and the cookies it handed to http.SetCookie.

\* Errors of the os package that FileSystemStore passes on.
ErrNotExist == <<"fs.ErrNotExist">>
PathError == <<"fs.PathError">>

\* new(T) for the session type T = string
NewValues == StringValue(<<>>)

SessionProxy(id, values, isNew, options, w) ==
    [ID |-> id, Values |-> values, IsNew |-> isNew, options |-> options, w |-> w]

StoreResult(err, proxy, fls, cookies) ==
    [err |-> err, proxy |-> proxy, files |-> fls, cookies |-> cookies]

\* What Decode leaves in dst: the decoded value, or what dst held.
Decoded(r, dst) == IF r.err = nil THEN r.value ELSE dst

\* CookieStore.Get once proxy.Decode(cookieValue, proxy.Values) returned r
CookieStoreGot(proxy, fls, r) ==
    StoreResult(r.err, [proxy EXCEPT !.Values = Decoded(r, proxy.Values)],
                fls, <<>>)

\* CookieStore.Get(ctx, proxy, cookieValue)
CookieStore_Get(cs, proxy, cookieValue, t, fls) ==
    CookieStoreGot(proxy, fls,
                   ProxyDecode(cs, proxy.options.Name, cookieValue, t))

\* CookieStore.New and FileSystemStore.New: nothing to do
Store_New(proxy, fls) == StoreResult(nil, proxy, fls, <<>>)

\* CookieStore.Save that writes the cookie whatever proxy.Encode returned.
CookieStoreEncoded_SaveAlways(proxy, t, fls, r) ==
    StoreResult(IF r.err # nil THEN r.err
                ELSE ProxySave(proxy.options, proxy.w, r.data, t).err,
                proxy, fls,
                ProxySave(proxy.options, proxy.w, r.data, t).cookies)

\* CookieStore.Save once proxy.Encode(proxy.Values) returned r
CookieStoreEncoded(proxy, t, fls, r) ==
    IF r.err # nil THEN StoreResult(r.err, proxy, fls, <<>>)
    ELSE StoreResult(ProxySave(proxy.options, proxy.w, r.data, t).err, proxy, fls,
                     ProxySave(proxy.options, proxy.w, r.data, t).cookies)

\* CookieStore.Save(ctx, proxy)
CookieStore_Save(cs, proxy, t, fls, ivs) ==
    CookieStoreEncoded(proxy, t, fls,
                       ProxyEncode(cs, proxy.options.Name, proxy.Values, t, ivs))

\* FileSystemStore.fileName(id): root/session_<id>, one file per ID
fileName(id) == id

\* FileSystemStore.read(fileName); disk is whether the file system works.
read(fls, name, disk) ==
    IF ~disk THEN [err |-> PathError, data |-> <<>>]
    ELSE IF name \notin DOMAIN fls THEN [err |-> ErrNotExist, data |-> <<>>]
    ELSE [err |-> nil, data |-> fls[name]]

\* write without the check of the data's length.
write_NoLimit(fls, maxFileSize, name, data, disk) ==
    IF ~disk THEN [err |-> PathError, files |-> fls]
    ELSE [err |-> nil,
          files |-> [n \in DOMAIN fls \cup {name} |->
                        IF n = name THEN data ELSE fls[n]]]

\* FileSystemStore.write(fileName, data)
write(fls, maxFileSize, name, data, disk) ==
    IF maxFileSize > 0 /\ Len(data) > maxFileSize
    THEN [err |-> ErrEncodedLengthTooLong, files |-> fls]
    ELSE IF ~disk THEN [err |-> PathError, files |-> fls]
    ELSE [err |-> nil,
          files |-> [n \in DOMAIN fls \cup {name} |->
                        IF n = name THEN data ELSE fls[n]]]

\* delete that leaves the file where it is.
delete_KeepsFile(fls, name, disk) ==
    IF ~disk THEN [err |-> PathError, files |-> fls]
    ELSE [err |-> nil, files |-> fls]

\* delete that reports a file that is not there.
delete_MissingIsError(fls, name, disk) ==
    IF ~disk THEN [err |-> PathError, files |-> fls]
    ELSE IF name \notin DOMAIN fls THEN [err |-> ErrNotExist, files |-> fls]
    ELSE [err |-> nil, files |-> [n \in DOMAIN fls \ {name} |-> fls[n]]]

\* FileSystemStore.delete(fileName): a file that is not there is no error.
delete(fls, name, disk) ==
    IF ~disk THEN [err |-> PathError, files |-> fls]
    ELSE [err |-> nil, files |-> [n \in DOMAIN fls \ {name} |-> fls[n]]]

\* FileSystemStore.Get once the second Decode, of the file, returned r
FileSystemStoreGotValues(proxy, fls, r) ==
    StoreResult(r.err, [proxy EXCEPT !.Values = Decoded(r, proxy.Values)],
                fls, <<>>)

\* FileSystemStore.Get once fs.read returned f
FileSystemStoreRead(cs, proxy, t, fls, f) ==
    IF f.err # nil THEN StoreResult(f.err, proxy, fls, <<>>)
    ELSE FileSystemStoreGotValues(proxy, fls,
             ProxyDecode(cs, proxy.options.Name, f.data, t))

\* FileSystemStore.Get once the first Decode, of the cookie into proxy.ID,
\* returned r
FileSystemStoreGotID(cs, proxy, t, fls, disk, r) ==
    IF r.err # nil THEN StoreResult(r.err, proxy, fls, <<>>)
    ELSE FileSystemStoreRead(cs, [proxy EXCEPT !.ID = r.value.s], t, fls,
                             read(fls, fileName(r.value.s), disk))

\* FileSystemStore.Get(ctx, proxy, cookieValue)
FileSystemStore_Get(cs, proxy, cookieValue, t, fls, disk) ==
    FileSystemStoreGotID(cs, proxy, t, fls, disk,
                         ProxyDecode(cs, proxy.options.Name, cookieValue, t))

\* FileSystemStore.Save, max-age <= 0, once fs.delete returned d
FileSystemStoreDeleted(proxy, d) ==
    IF d.err # nil THEN StoreResult(d.err, proxy, d.files, <<>>)
    ELSE StoreResult(ProxyDelete(proxy.options, proxy.w).err,
                     [proxy EXCEPT
                         !.options = ProxyDelete(proxy.options, proxy.w).options],
                     d.files,
                     ProxyDelete(proxy.options, proxy.w).cookies)

\* FileSystemStore.Save once proxy.Encode(proxy.ID) returned r
FileSystemStoreEncodedID(proxy, t, fls, r) ==
    IF r.err # nil THEN StoreResult(r.err, proxy, fls, <<>>)
    ELSE StoreResult(ProxySave(proxy.options, proxy.w, r.data, t).err, proxy, fls,
                     ProxySave(proxy.options, proxy.w, r.data, t).cookies)

\* FileSystemStore.Save once fs.write returned wr
FileSystemStoreWritten(cs, proxy, t, ivs, wr) ==
    IF wr.err # nil THEN StoreResult(wr.err, proxy, wr.files, <<>>)
    ELSE FileSystemStoreEncodedID(proxy, t, wr.files,
             ProxyEncode(cs, proxy.options.Name, StringValue(proxy.ID), t, ivs))

\* FileSystemStore.Save once proxy.Encode(proxy.Values) returned r
FileSystemStoreEncoded(cs, maxFileSize, proxy, t, fls, disk, ivs, r) ==
    IF r.err # nil THEN StoreResult(r.err, proxy, fls, <<>>)
    ELSE FileSystemStoreWritten(cs, proxy, t, ivs,
             write(fls, maxFileSize, fileName(proxy.ID), r.data, disk))

\* FileSystemStore.Save with max-age > 0 and proxy.ID set
FileSystemStoreWrite(cs, maxFileSize, proxy, t, fls, disk, ivs) ==
    FileSystemStoreEncoded(cs, maxFileSize, proxy, t, fls, disk, ivs,
        ProxyEncode(cs, proxy.options.Name, proxy.Values, t, ivs))

\* FileSystemStore.Save that gives every saved session a new ID.
FileSystemStore_Save_AlwaysNewID(cs, maxFileSize, proxy, t, fls, rid, disk, ivs) ==
    IF proxy.options.MaxAge <= 0
    THEN FileSystemStoreDeleted(proxy, delete(fls, fileName(proxy.ID), disk))
    ELSE FileSystemStoreWrite(cs, maxFileSize, [proxy EXCEPT !.ID = rid],
                              t, fls, disk, ivs)

\* FileSystemStore.Save(ctx, proxy); rid is what randomID(32) returns if it
\* is called (the empty string when the random source fails).
FileSystemStore_Save(cs, maxFileSize, proxy, t, fls, rid, disk, ivs) ==
    IF proxy.options.MaxAge <= 0
    THEN FileSystemStoreDeleted(proxy, delete(fls, fileName(proxy.ID), disk))
    ELSE FileSystemStoreWrite(cs, maxFileSize,
             [proxy EXCEPT !.ID = IF proxy.ID = <<>> THEN rid ELSE proxy.ID],
             t, fls, disk, ivs)

\* sm.store.Get / New / Save for the two built-in stores
Store_Get(m, cs, proxy, cookieValue, t, fls, disk) ==
    IF m.store = "CookieStore" THEN CookieStore_Get(cs, proxy, cookieValue, t, fls)
    ELSE FileSystemStore_Get(cs, proxy, cookieValue, t, fls, disk)

Store_Save(m, cs, proxy, t, fls, rid, disk, ivs) ==
    IF m.store = "CookieStore" THEN CookieStore_Save(cs, proxy, t, fls, ivs)
    ELSE FileSystemStore_Save(cs, m.maxFileSize, proxy, t, fls, rid, disk, ivs)

\* The Session the manager builds from the proxy (manager.go, Get).
Session(proxy) ==
    [Values |-> proxy.Values, IsNew |-> proxy.IsNew, storeKey |-> proxy.ID,
     options |-> proxy.options]

----------------------------------------------------------------------------
\* The inputs of the model.

K1 == <<107, 49>>
K2 == <<107, 50>>
BlockKey16 == [i \in 1..16 |-> 7]
BadBlockKey == <<1>>

\* The codec lists a manager is built with.
CodecLists ==
    { <<>>,
      <<NewCodec(K1, <<>>), NewCodec(K2, <<>>)>>,
      <<NewCodec(K1, <<WithMinAge(1), WithMaxAge(1)>>)>>,
      <<NewCodec(K1, <<WithMinAge(3), WithMaxAge(1), WithMaxLength(0)>>),
        NewCodec(K2, <<WithHashFn("sha512"), WithMaxAge(0)>>)>>,
      <<NewCodec(K1, <<WithMaxLength(30)>>),
        NewCodec(K1, <<WithSerializer("gob"), WithBlockKey(BlockKey16),
                       WithMaxAge(0), WithMaxLength(0)>>)>>,
      <<NewCodec(<<>>, <<WithMaxLength(10)>>), NewCodec(K2, <<>>)>>,
      <<NewCodec(K2, <<WithBlockKey(BadBlockKey), WithMaxLength(10)>>)>> }

\* Cookie names: "a" and "b". The manager's sessions are named "a".
Names == {<<97>>, <<98>>}
SessionName == <<97>>

\* Session values: "", "hi" and a value that cannot be serialized.
Values == {StringValue(<<>>), StringValue(<<104, 105>>), ChanValue}

\* What the random source may deliver as an IV.
IVs == {[i \in 1..AesBlockSize |-> i], [i \in 1..AesBlockSize |-> 200], NoIV}

IVsFor(c) == IF c.err = nil /\ c.block # NoBlock THEN IVs ELSE {NoIV}

\* MaxAge of the session being saved.
MaxAges == {-1, 0, 3600}

\* A token made by a holder of the hash key K1 (another service that shares
\* the key) for the session cookie: its MAC is right and its timestamp is
\* not a number.
UnparsableToken ==
    encode(<<120, Pipe>> \o encode(<<Quote, Quote>>) \o <<Pipe>>
           \o createMac("sha256", K1,
                         SessionName \o <<Pipe, 120, Pipe>>
                         \o encode(<<Quote, Quote>>)))

\* Tokens a client makes up without any key: not base64, base64 without
\* separators, and well-formed tokens with a MAC that is not the codec's,
\* with a current and with an old timestamp, with and without a payload that
\* would decode; and the token of the key holder.
ForgedTokens ==
    { <<>>,
      <<33, 33, 33, 33>>,
      encode(<<110, 111>>),
      encode(<<49, Pipe, 120>>),
      encode(FormatInt(0) \o <<Pipe>> \o encode(<<Quote, Quote>>) \o <<Pipe, 109>>),
      encode(<<120, Pipe, 33, Pipe, 109>>),
      encode(FormatInt(0) \o <<Pipe>> \o encode(<<Quote, 104, 105, 104, 105, Quote>>)
             \o <<Pipe>> \o createMac("sha256", <<107, 51>>, <<97, Pipe, 48>>)),
      UnparsableToken }

\* The bytes a client may put in place of byte ch of a token: the alphabet
\* character whose value differs in the lowest bit ('A' for a character
\* outside the alphabet), '=' and '!'.
TamperBytes(ch) ==
    {PadChar, 33,
     IF DecodeMap(ch) = -1 THEN 65
     ELSE Alphabet(IF DecodeMap(ch) % 2 = 0 THEN DecodeMap(ch) + 1
                   ELSE DecodeMap(ch) - 1)}
    \ {ch}

----------------------------------------------------------------------------
\* The state machine.

NoToken == [kind |-> "none", data |-> <<>>, by |-> 0, name |-> <<>>,
            value |-> NoValue, ts |-> 0]

\* No call has returned since the caller took the last result.
NoCall == [op |-> "none", codec |-> 0, name |-> <<>>, src |-> NoValue,
           tamperedAt |-> 0, tamperedTo |-> 0, t |-> 0, err |-> nil,
           issued |-> FALSE,
           value |-> NoValue, steps |-> <<>>, used |-> 0, attempts |-> <<>>,
           age |-> 0, options |-> NewCookieOptions]

\* No session manager: the codecs and the proxy are used on their own.
NoManager == [store |-> "none", options |-> NewCookieOptions, maxFileSize |-> 0]

\* An empty directory and an empty registry.
NoFiles == [n \in {} |-> <<>>]
NoSessions == [n \in {} |-> <<>>]

NoProxy == SessionProxy(<<>>, NoValue, FALSE, NewCookieOptions, FALSE)

\* No manager or session call has returned since the handler went on.
NoManagerCall ==
    [op |-> "none", t |-> 0, w |-> FALSE, disk |-> TRUE, rnd |-> TRUE,
     hadCookie |-> FALSE, registered |-> FALSE,
     calls |-> <<>>, given |-> NoProxy, cookieValue |-> <<>>,
     err |-> nil, proxy |-> NoProxy, returned |-> FALSE,
     session |-> Session(NoProxy), cookies |-> <<>>, filesBefore |-> NoFiles]

\* Nobody holds fsMutex and no goroutine is inside a file operation.
Unlocked == 0
NoProcs == <<>>

\* The flash messages stored under each key; "" stands for no entry (a read
\* of a missing key, or of a nil map, gives the empty string).
Keys == {"k", "j"}
NoMessages == [k \in Keys |-> ""]

\* The zero Flash: its three maps are nil.
NewFlash == [flashes |-> NoMessages, now |-> NoMessages, keep |-> NoMessages]

Init ==
    /\ codecs \in CodecLists
    /\ now = 0
    /\ tok = NoToken
    /\ last = NoCall
    /\ resp = <<>>
    /\ mgr = NoManager
    /\ files = NoFiles
    /\ ids = 0
    /\ reg = NoSessions
    /\ served = <<>>
    /\ call = NoManagerCall
    /\ fsMutex = Unlocked
    /\ procs = NoProcs
    /\ flash = NewFlash
    /\ log = <<>>

\* The clock advances.
Tick ==
    /\ last.op = "none"
    /\ now < MaxTime
    /\ now' = now + 1
    /\ UNCHANGED <<codecs, tok, last, resp>>
    /\ UNCHANGED <<mvars, fsvars, flvars>>

\* codecs[i].Encode(name, src); the token goes to the client.
CodecEncode(i, name, src, iv) ==
    /\ last.op = "none"
    /\ \E r \in {Encode(codecs[i], name, src, now, iv)} :
        /\ last' = [NoCall EXCEPT !.op = "Encode", !.codec = i, !.name = name,
                                  !.src = src, !.t = now, !.err = r.err,
                                  !.issued = (r.data # <<>>),
                                  !.steps = r.steps]
        /\ tok' = IF r.err = nil
                  THEN [kind |-> "issued", data |-> r.data, by |-> i, name |-> name,
                        value |-> src, ts |-> now]
                  ELSE tok
    /\ UNCHANGED <<codecs, now, resp>>
    /\ UNCHANGED <<mvars, fsvars, flvars>>

\* codecs[i].Decode(name, token, dst) of the token the client holds.
CodecDecode(i, name) ==
    /\ last.op = "none"
    /\ tok.kind # "none"
    /\ \E r \in {Decode(codecs[i], name, tok.data, now)} :
        last' = [NoCall EXCEPT !.op = "Decode", !.codec = i, !.name = name,
                               !.t = now, !.err = r.err,
                               !.value = r.value, !.steps = r.steps]
    /\ UNCHANGED <<codecs, now, tok, resp>>
    /\ UNCHANGED <<mvars, fsvars, flvars>>

\* The client changes byte p of a token issued for the session cookie to b
\* and presents it to the codec that issued it, under the same name.
CodecDecodeTampered(p, b) ==
    /\ last.op = "none"
    /\ tok.kind = "issued"
    /\ tok.name = SessionName
    /\ \E r \in {Decode(codecs[tok.by], tok.name,
                        [tok.data EXCEPT ![p] = b], now)} :
           last' = [NoCall EXCEPT !.op = "Decode", !.codec = tok.by,
                                  !.name = tok.name, !.tamperedAt = p,
                                  !.tamperedTo = b, !.t = now, !.err = r.err,
                                  !.value = r.value, !.steps = r.steps]
    /\ UNCHANGED <<codecs, now, tok, resp>>
    /\ UNCHANGED <<mvars, fsvars, flvars>>

\* The client presents a token it made up.
Forge(t) ==
    /\ last.op = "none"
    /\ tok' = [NoToken EXCEPT !.kind = "forged", !.data = t]
    /\ UNCHANGED <<codecs, now, last, resp>>
    /\ UNCHANGED <<mvars, fsvars, flvars>>

\* SessionProxy.Decode(token, dst) of the token the client holds.
SessionProxyDecode ==
    /\ last.op = "none"
    /\ tok.kind # "none"
    /\ \E r \in {ProxyDecode(codecs, SessionName, tok.data, now)} :
        last' = [NoCall EXCEPT !.op = "ProxyDecode", !.name = SessionName,
                               !.t = now, !.err = r.err,
                               !.value = r.value, !.used = r.used,
                               !.attempts = r.attempts]
    /\ UNCHANGED <<codecs, now, tok, resp>>
    /\ UNCHANGED <<mvars, fsvars, flvars>>

\* SessionProxy.Encode(src)
SessionProxyEncode(src, ivs) ==
    /\ last.op = "none"
    /\ \E r \in {ProxyEncode(codecs, SessionName, src, now, ivs)} :
        /\ last' = [NoCall EXCEPT !.op = "ProxyEncode", !.name = SessionName,
                                  !.src = src, !.t = now, !.err = r.err,
                                  !.issued = (r.data # <<>>),
                                  !.used = r.used,
                                  !.attempts = r.attempts]
        /\ tok' = IF r.err = nil
                  THEN [kind |-> "issued", data |-> r.data, by |-> r.used,
                        name |-> SessionName, value |-> src, ts |-> now]
                  ELSE tok
    /\ UNCHANGED <<codecs, now, resp>>
    /\ UNCHANGED <<mvars, fsvars, flvars>>

\* CookieStore.Get(ctx, proxy, cookieValue) with the client's cookie.
CookieStoreGet ==
    /\ last.op = "none"
    /\ tok.kind # "none"
    /\ \E r \in {ProxyDecode(codecs, SessionName, tok.data, now)} :
        last' = [NoCall EXCEPT !.op = "Get", !.name = SessionName,
                               !.t = now, !.err = r.err,
                               !.value = r.value, !.used = r.used,
                               !.attempts = r.attempts]
    /\ UNCHANGED <<codecs, now, tok, resp>>
    /\ UNCHANGED <<mvars, fsvars, flvars>>

\* CookieStore.Save(ctx, proxy) of a session with Values = src and
\* options.MaxAge = age, on a response writer; the client stores the cookie.
CookieStoreSave(src, age, ivs) ==
    /\ last.op = "none"
    /\ \E r \in {ProxyEncode(codecs, SessionName, src, now, ivs)} :
        /\ last' = [NoCall EXCEPT !.op = "Save", !.name = SessionName,
                                  !.src = src, !.t = now, !.err = r.err,
                                  !.issued = (r.data # <<>>),
                                  !.used = r.used,
                                  !.attempts = r.attempts, !.age = age]
        /\ resp' = IF r.err = nil
                   THEN resp \o ProxySave([NewCookieOptions EXCEPT
                                              !.Name = SessionName,
                                              !.MaxAge = age],
                                          TRUE, r.data, now).cookies
                   ELSE resp
        /\ tok' = IF r.err # nil THEN tok
                  ELSE IF age < 0 THEN NoToken
                  ELSE [kind |-> "issued", data |-> r.data, by |-> r.used,
                        name |-> SessionName, value |-> src, ts |-> now]
    /\ UNCHANGED <<codecs, now>>
    /\ UNCHANGED <<mvars, fsvars, flvars>>

\* The caller takes the result; the response is sent.
Return ==
    /\ last.op # "none"
    /\ last' = NoCall
    /\ resp' = <<>>
    /\ UNCHANGED <<codecs, now, tok>>
    /\ UNCHANGED <<mvars, fsvars, flvars>>

IVChoices == {ivs \in [1..Len(codecs) -> IVs] :
                \A i \in 1..Len(codecs) : ivs[i] \in IVsFor(codecs[i])}

\* SessionProxy.Delete() called on a proxy whose options have MaxAge age;
\* the client drops its cookie when the response carries the deleting one.
SessionProxyDelete(age, w) ==
    /\ last.op = "none"
    /\ \E r \in {ProxyDelete([NewCookieOptions EXCEPT !.Name = SessionName,
                                                       !.MaxAge = age], w)} :
        /\ last' = [NoCall EXCEPT !.op = "Delete", !.name = SessionName,
                                  !.t = now, !.err = r.err, !.age = age,
                                  !.options = r.options]
        /\ resp' = resp \o r.cookies
        /\ tok' = IF r.err = nil THEN NoToken ELSE tok
    /\ UNCHANGED <<codecs, now>>
    /\ UNCHANGED <<mvars, fsvars, flvars>>

Next ==
    \/ Tick
    \/ \E i \in 1..Len(codecs), name \in Names, src \in Values :
          \E iv \in IVsFor(codecs[i]) : CodecEncode(i, name, src, iv)
    \/ \E i \in 1..Len(codecs), name \in Names : CodecDecode(i, name)
    \/ \E p \in 1..Len(tok.data) :
          \E b \in TamperBytes(tok.data[p]) : CodecDecodeTampered(p, b)
    \/ \E t \in ForgedTokens : Forge(t)
    \/ SessionProxyDecode
    \/ \E src \in Values, ivs \in IVChoices : SessionProxyEncode(src, ivs)
    \/ CookieStoreGet
    \/ \E src \in Values, age \in MaxAges, ivs \in IVChoices :
          CookieStoreSave(src, age, ivs)
    \/ \E age \in MaxAges, w \in BOOLEAN : SessionProxyDelete(age, w)
    \/ Return

Spec == Init /\ [][Next]_vars

----------------------------------------------------------------------------
\* The session manager at work: a client sends requests with the cookie it
\* holds, a handler gets the session, changes it and saves or deletes it,
\* and the client takes the cookies of the response.

\* The codec lists a session manager is built with.
ManagerCodecLists ==
    { <<>>,
      <<NewCodec(K1, <<>>)>>,
      <<NewCodec(K1, <<WithMaxLength(30)>>)>>,
      <<NewCodec(K2, <<WithMaxLength(30)>>), NewCodec(K1, <<WithMaxAge(1)>>)>> }

\* The cookie options a session manager is built with.
ManagerOptions ==
    { [NewCookieOptions EXCEPT !.Name = SessionName],
      [NewCookieOptions EXCEPT !.Name = SessionName, !.MaxAge = 0,
                               !.Path = "/app", !.Secure = TRUE,
                               !.SameSite = "Strict"],
      [NewCookieOptions EXCEPT !.Name = SessionName, !.MaxAge = -1,
                               !.Domain = "example.com", !.HttpOnly = FALSE,
                               !.Partitioned = TRUE] }

\* NewSessionManager(options, store, codecs...) with NewCookieStore() or
\* NewFileSystemStore(root, maxFileSize)
Managers ==
    [store : {"CookieStore"}, options : ManagerOptions, maxFileSize : {0}]
    \cup [store : {"FileSystemStore"}, options : ManagerOptions,
          maxFileSize : {0}]
    \cup [store : {"FileSystemStore"},
          options : {[NewCookieOptions EXCEPT !.Name = SessionName]},
          maxFileSize : {30}]

\* Cookies a client makes up: not base64, and a well-formed token with a
\* MAC that is not the codec's.
ManagerForgedTokens ==
    { <<33, 33, 33, 33>>,
      encode(FormatInt(0) \o <<Pipe>> \o encode(<<Quote, Quote>>) \o <<Pipe, 109>>) }

\* The k-th ID that randomID delivers: "i1", "i2", ...
RandomID(k) == <<105, Zero + k>>

\* The random source has nothing to deliver for codecs that do not encrypt.
NoIVs == [i \in 1..Len(codecs) |-> NoIV]

\* Max-ages a handler passes to Session.Persist.
PersistAges == {60}

\* Values a handler stores in the session.
SessionValues == {StringValue(<<>>), StringValue(<<104, 105>>)}

\* Whether the file system can fail: only a FileSystemStore touches it.
DiskStates == IF mgr.store = "FileSystemStore" THEN BOOLEAN ELSE {TRUE}

\* The option profiles other than the default one, and the file size limit,
\* are run with the single codec without a length limit; the single codec
\* with a length limit is run with the CookieStore.
ManagerSetup(m, cs) ==
    /\ (m.options.MaxAge # DefaultMaxAge \/ m.maxFileSize # 0) =>
          cs = <<NewCodec(K1, <<>>)>>
    /\ cs = <<NewCodec(K1, <<WithMaxLength(30)>>)>> => m.store = "CookieStore"

ManagerInit ==
    /\ codecs \in ManagerCodecLists
    /\ now = StartTime
    /\ tok = NoToken
    /\ last = NoCall
    /\ resp = <<>>
    /\ mgr \in Managers
    /\ ManagerSetup(mgr, codecs)
    /\ files = NoFiles
    /\ ids = 0
    /\ reg = NoSessions
    /\ served = <<>>
    /\ call = NoManagerCall
    /\ fsMutex = Unlocked
    /\ procs = NoProcs
    /\ flash = NewFlash
    /\ log = <<>>

\* The clock advances between two requests.
ManagerTick ==
    /\ call.op = "none"
    /\ reg = NoSessions
    /\ resp = <<>>
    /\ 0 < Len(served) /\ Len(served) < MaxRequests
    /\ now < StartTime + MaxTime
    /\ now' = now + 1
    /\ UNCHANGED <<codecs, tok, last, resp>>
    /\ UNCHANGED <<mvars, fsvars, flvars>>

\* The client sends its next request with a cookie it made up.
RequestForged(t) ==
    /\ call.op = "none"
    /\ reg = NoSessions
    /\ resp = <<>>
    /\ Len(served) < MaxRequests
    /\ tok.kind = "none"
    /\ tok' = [NoToken EXCEPT !.kind = "forged", !.data = t]
    /\ UNCHANGED <<codecs, now, last, resp>>
    /\ UNCHANGED <<mvars, fsvars, flvars>>

\* A client that holds no cookie sends its next request with a copy it kept
\* of the cookie of the k-th response.
RequestReplayed(k) ==
    /\ call.op = "none"
    /\ reg = NoSessions
    /\ resp = <<>>
    /\ Len(served) < MaxRequests
    /\ tok.kind = "none"
    /\ k <= Len(served)
    /\ served[k] # <<>>
    /\ served[k][Len(served[k])].Value # <<>>
    /\ tok' = [NoToken EXCEPT !.kind = "replayed",
                              !.data = served[k][Len(served[k])].Value,
                              !.name = served[k][Len(served[k])].Name]
    /\ UNCHANGED <<codecs, now, last, resp>>
    /\ UNCHANGED <<mvars, fsvars, flvars>>

\* The proxy sessionManager.Get starts with.
GetProxy == SessionProxy(<<>>, NewValues, FALSE, mgr.options, FALSE)

\* The store methods a manager call made, the proxy and the cookie value it
\* handed to the first of them, and the result r of the last.
StoreCalled(calls, given, cookieValue, r) ==
    [calls |-> calls, given |-> given, cookieValue |-> cookieValue,
     err |-> r.err, proxy |-> r.proxy]

\* GetFromStore without the preset of IsNew before Store.New.
GetFromStore_NoPreset(disk) ==
    IF tok.kind # "none"
    THEN StoreCalled(<<"Store.Get">>, GetProxy, tok.data,
                     Store_Get(mgr, codecs, GetProxy, tok.data, now, files, disk))
    ELSE StoreCalled(<<"Store.New">>, GetProxy, <<>>, Store_New(GetProxy, files))

\* GetFromStore falling back to Store.New when Store.Get fails.
GetFromStore_NewOnError(disk) ==
    IF tok.kind # "none"
       /\ Store_Get(mgr, codecs, GetProxy, tok.data, now, files, disk).err = nil
    THEN StoreCalled(<<"Store.Get">>, GetProxy, tok.data,
                     Store_Get(mgr, codecs, GetProxy, tok.data, now, files, disk))
    ELSE StoreCalled(IF tok.kind # "none" THEN <<"Store.Get", "Store.New">>
                     ELSE <<"Store.New">>,
                     [GetProxy EXCEPT !.IsNew = TRUE], <<>>,
                     Store_New([GetProxy EXCEPT !.IsNew = TRUE], files))

\* sessionManager.Get from the cookie lookup on: Store.Get with the cookie
\* of the request, or Store.New with IsNew preset.
GetFromStore(disk) ==
    IF tok.kind # "none"
    THEN StoreCalled(<<"Store.Get">>, GetProxy, tok.data,
                     Store_Get(mgr, codecs, GetProxy, tok.data, now, files, disk))
    ELSE StoreCalled(<<"Store.New">>, [GetProxy EXCEPT !.IsNew = TRUE], <<>>,
                     Store_New([GetProxy EXCEPT !.IsNew = TRUE], files))

\* sessionManager.Get(r). The proxy's options are a pointer to the options
\* of the manager: what the store leaves in them is left in the manager.
ManagerGet(disk) ==
    /\ call.op = "none"
    /\ Len(served) < MaxRequests
    /\ IF SessionName \in DOMAIN reg
       THEN /\ disk
            /\ call' = [NoManagerCall EXCEPT
                           !.op = "Get", !.t = now,
                           !.hadCookie = (tok.kind # "none"),
                           !.registered = TRUE,
                           !.returned = TRUE,
                           !.session = reg[SessionName]]
            /\ reg' = reg
            /\ mgr' = mgr
       ELSE \E r \in {GetFromStore(disk)} :
            /\ call' = [NoManagerCall EXCEPT
                           !.op = "Get", !.t = now, !.disk = disk,
                           !.hadCookie = (tok.kind # "none"),
                           !.calls = r.calls,
                           !.given = r.given,
                           !.cookieValue = r.cookieValue,
                           !.err = r.err,
                           !.proxy = r.proxy,
                           !.returned = (r.err = nil),
                           !.session = IF r.err = nil THEN Session(r.proxy)
                                       ELSE Session(NoProxy)]
            /\ reg' = IF r.err = nil
                      THEN [n \in {SessionName} |-> Session(r.proxy)]
                      ELSE reg
            /\ mgr' = [mgr EXCEPT !.options = r.proxy.options]
    /\ UNCHANGED <<codecs, now, tok, last, resp, files, ids, served>>
    /\ UNCHANGED <<fsvars, flvars>>

\* The handler assigns session.Values.
SetValues(v) ==
    /\ call.op = "none"
    /\ SessionName \in DOMAIN reg
    /\ Len(resp) < MaxSaves
    /\ Len(served) < MaxRequests - 1
    /\ reg[SessionName].Values # v
    /\ reg' = [reg EXCEPT ![SessionName].Values = v]
    /\ UNCHANGED <<codecs, now, tok, last, resp, mgr, files, ids, served, call>>
    /\ UNCHANGED <<fsvars, flvars>>

\* Session.Expire()
SessionExpire ==
    /\ call.op = "none"
    /\ SessionName \in DOMAIN reg
    /\ Len(resp) < MaxSaves
    /\ Len(served) < MaxRequests - 1
    /\ reg' = [reg EXCEPT ![SessionName].options.MaxAge = -1]
    /\ UNCHANGED <<codecs, now, tok, last, resp, mgr, files, ids, served, call>>
    /\ UNCHANGED <<fsvars, flvars>>

\* Session.DoNotPersist()
SessionDoNotPersist ==
    /\ call.op = "none"
    /\ SessionName \in DOMAIN reg
    /\ Len(resp) < MaxSaves
    /\ Len(served) < MaxRequests - 1
    /\ reg' = [reg EXCEPT ![SessionName].options.MaxAge = 0]
    /\ UNCHANGED <<codecs, now, tok, last, resp, mgr, files, ids, served, call>>
    /\ UNCHANGED <<fsvars, flvars>>

\* Session.Persist(maxAge)
SessionPersist(maxAge) ==
    /\ call.op = "none"
    /\ SessionName \in DOMAIN reg
    /\ Len(resp) < MaxSaves
    /\ Len(served) < MaxRequests - 1
    /\ reg' = [reg EXCEPT ![SessionName].options.MaxAge = maxAge]
    /\ UNCHANGED <<codecs, now, tok, last, resp, mgr, files, ids, served, call>>
    /\ UNCHANGED <<fsvars, flvars>>

\* sessionManager.Save handing the manager's options to the proxy.
SaveProxy_ManagerOptions(session, w) ==
    SessionProxy(session.storeKey, session.Values, session.IsNew,
                 mgr.options, w)

\* The proxy sessionManager.Save builds from the session.
SaveProxy(session, w) ==
    SessionProxy(session.storeKey, session.Values, session.IsNew,
                 session.options, w)

\* Whether FileSystemStore.Save of this session calls randomID.
NeedsID(session) ==
    /\ mgr.store = "FileSystemStore"
    /\ session.options.MaxAge > 0
    /\ session.storeKey = <<>>

\* sessionManager.Save(w, r, session): the store's Save on the proxy of the
\* session; rnd is whether the random source delivers. The proxy's options
\* are a pointer to the options of the session: the callers below leave in
\* the session what the store leaves in them.
ManagerSave(op, session, w, rnd, disk) ==
    /\ Len(resp) < MaxSaves
    /\ Len(served) < MaxRequests - 1
    /\ NeedsID(session) => ids < MaxIDs
    /\ \E r \in {Store_Save(mgr, codecs, SaveProxy(session, w), now, files,
                            IF rnd THEN RandomID(ids + 1) ELSE <<>>,
                            disk, NoIVs)} :
          /\ call' = [NoManagerCall EXCEPT
                         !.op = op, !.t = now, !.w = w, !.disk = disk,
                         !.rnd = rnd,
                         !.hadCookie = (tok.kind # "none"),
                         !.calls = <<"Store.Save">>,
                         !.given = SaveProxy(session, w),
                         !.err = r.err,
                         !.proxy = r.proxy,
                         !.session = session,
                         !.cookies = r.cookies,
                         !.filesBefore = files]
          /\ files' = r.files
          /\ resp' = resp \o r.cookies
    /\ ids' = IF NeedsID(session) /\ rnd THEN ids + 1 ELSE ids
    /\ UNCHANGED <<codecs, now, tok, last, mgr, served>>
    /\ UNCHANGED <<fsvars, flvars>>

\* Whether the random source can fail: only when randomID is called.
RandomStates(session) == IF NeedsID(session) THEN BOOLEAN ELSE {TRUE}

\* Session.Save(w, r)
SessionSave(w, rnd, disk) ==
    /\ call.op = "none"
    /\ SessionName \in DOMAIN reg
    /\ rnd \in RandomStates(reg[SessionName])
    /\ ManagerSave("Save", reg[SessionName], w, rnd, disk)
    /\ reg' = [reg EXCEPT ![SessionName].options = call'.proxy.options]

\* Session.Delete(w, r)
SessionDelete(w, disk) ==
    /\ call.op = "none"
    /\ SessionName \in DOMAIN reg
    /\ ManagerSave("Delete",
                   [reg[SessionName] EXCEPT !.options.MaxAge = -1],
                   w, TRUE, disk)
    /\ reg' = [reg EXCEPT ![SessionName].options = call'.proxy.options]

\* The handler goes on after a call.
Resume ==
    /\ call.op # "none"
    /\ call' = NoManagerCall
    /\ UNCHANGED <<codecs, now, tok, last, resp, mgr, files, ids, served, reg>>
    /\ UNCHANGED <<fsvars, flvars>>

\* What the client holds after a response with the cookie c: nothing when
\* the cookie is expired, the cookie otherwise.
Received(c) ==
    IF c.MaxAge < 0 \/ (c.HasExpires /\ c.Expires < now) THEN NoToken
    ELSE [NoToken EXCEPT !.kind = "issued", !.data = c.Value, !.name = c.Name,
                         !.ts = now]

\* The response is sent: the client takes its last cookie, the request and
\* its registry are gone.
EndRequest ==
    /\ call.op = "none"
    /\ reg # NoSessions \/ resp # <<>>
    /\ served' = Append(served, resp)
    /\ tok' = IF resp = <<>> THEN tok ELSE Received(resp[Len(resp)])
    /\ reg' = NoSessions
    /\ resp' = <<>>
    /\ UNCHANGED <<codecs, now, last, mgr, files, ids, call>>
    /\ UNCHANGED <<fsvars, flvars>>

ManagerNext ==
    \/ ManagerTick
    \/ \E t \in ManagerForgedTokens : RequestForged(t)
    \/ \E k \in 1..MaxRequests : RequestReplayed(k)
    \/ \E disk \in DiskStates : ManagerGet(disk)
    \/ \E v \in SessionValues : SetValues(v)
    \/ SessionExpire
    \/ SessionDoNotPersist
    \/ \E maxAge \in PersistAges : SessionPersist(maxAge)
    \/ \E w \in BOOLEAN, rnd \in BOOLEAN, disk \in DiskStates :
          SessionSave(w, rnd, disk)
    \/ \E w \in BOOLEAN, disk \in DiskStates : SessionDelete(w, disk)
    \/ Resume
    \/ EndRequest

ManagerSpec == ManagerInit /\ [][ManagerNext]_vars

----------------------------------------------------------------------------
\* Properties.

\* The token the last Decode was given.
Presented ==
    IF last.tamperedAt # 0
    THEN [tok.data EXCEPT ![last.tamperedAt] = last.tamperedTo]
    ELSE tok.data

\* The last call decoded, with codec last.codec, a token that this codec's
\* Encode returned, unchanged.
DecodedOwnToken ==
    /\ last.op = "Decode"
    /\ last.tamperedAt = 0
    /\ tok.kind = "issued"
    /\ last.codec = tok.by

\* The token's MAC is the MAC of codec c over name, timestamp and payload.
Authentic(c, name, token) ==
    LET d == decode(token)
        parts == SplitN3(d.data)
    IN  /\ d.err = nil
        /\ Len(parts) = 3
        /\ parts[3] = createMac(c.hashFn, c.hashKey,
                                name \o <<Pipe>> \o parts[1] \o <<Pipe>> \o parts[2])

\* A timestamp ts passes the age window of codec c at time t.
InAgeWindow(c, ts, t) ==
    /\ c.minAge = 0 \/ ts <= t - c.minAge
    /\ c.maxAge = 0 \/ ts >= t - c.maxAge

\* C1 as claimed: for a codec without construction error and a value the
\* serializer can represent, Encode(n, v) succeeds, and Decode(n, .) of its
\* token by the same codec at the same instant succeeds and yields v.
C1_RoundTripAlways ==
    /\ (last.op = "Encode" /\ codecs[last.codec].err = nil /\ last.src.kind = "string")
          => last.err = nil
    /\ (DecodedOwnToken /\ last.name = tok.name /\ last.t = tok.ts)
          => (last.err = nil /\ last.value = tok.value)

\* C1 amended: Encode(n, v) of a serializable value by a codec without
\* construction error fails only for length (ErrEncodedLengthTooLong) or
\* for lack of an IV (ErrGeneratingIV); when it returns a token, Decode(n, .)
\* by the same codec at a time at which the token's timestamp is inside the
\* codec's age window (not newer than now - minAge when minAge # 0, not older
\* than now - maxAge when maxAge # 0) succeeds and yields v.
C1_RoundTrip ==
    /\ (last.op = "Encode" /\ codecs[last.codec].err = nil /\ last.src.kind = "string")
          => \/ last.err = nil
             \/ last.err = ErrEncodedLengthTooLong
             \/ Is(last.err, ErrGeneratingIV)
    /\ (/\ DecodedOwnToken
        /\ last.name = tok.name
        /\ InAgeWindow(codecs[last.codec], tok.ts, last.t))
          => (last.err = nil /\ last.value = tok.value)

\* An encrypted, gob-serialized "hi" came back from Decode.
C1_Witness ==
    /\ DecodedOwnToken
    /\ last.name = tok.name
    /\ codecs[last.codec].block # NoBlock
    /\ last.err = nil
    /\ last.value = StringValue(<<104, 105>>)

\* C2 as claimed: Decode of a token that differs in exactly one byte from a
\* token Encode returned, by the same codec under the same name, fails with
\* the integrity error and never succeeds. Stated in the part of the claim
\* that does not depend on which error counts as the integrity error: such
\* a Decode never returns nil.
C2_TamperDetected ==
    (last.op = "Decode" /\ last.tamperedAt # 0) => last.err # nil

\* C3: a token Encode returned under name a is rejected by the same codec's
\* Decode under any other name, with ErrHMACIsInvalid.
C3_NameBinding ==
    (DecodedOwnToken /\ last.name # tok.name) => last.err = ErrHMACIsInvalid

C3_Witness ==
    /\ DecodedOwnToken
    /\ last.name # tok.name
    /\ last.err = ErrHMACIsInvalid
    /\ InAgeWindow(codecs[last.codec], tok.ts, last.t)

\* The codecs of the list that accept the token the client holds, at time t.
Accepting(t) ==
    {i \in 1..Len(codecs) : Decode(codecs[i], SessionName, tok.data, t).err = nil}

Min(S) == CHOOSE i \in S : \A k \in S : i <= k

\* C4: SessionProxy.Decode asks the codecs in list order, stops at the first
\* one that accepts, asks none after it, and succeeds iff some codec of the
\* list accepts the token.
C4_DecodeRotation ==
    (last.op \in {"ProxyDecode", "Get"} /\ Len(codecs) > 0) =>
        /\ \A j \in 1..Len(last.attempts) : last.attempts[j].codec = j
        /\ \A j \in 1..(Len(last.attempts) - 1) : last.attempts[j].err # nil
        /\ (last.err = nil) <=> (Accepting(last.t) # {})
        /\ Accepting(last.t) # {} =>
              /\ last.used = Min(Accepting(last.t))
              /\ Len(last.attempts) = last.used
              /\ last.attempts[last.used].err = nil
              /\ last.value = Decode(codecs[last.used], SessionName, tok.data,
                                     last.t).value
        /\ Accepting(last.t) = {} => Len(last.attempts) = Len(codecs)

\* With codecs [new, old], a token the old codec alone encoded was decoded
\* by the proxy: the first codec rejected it, the second accepted it.
C4_Witness ==
    /\ last.op = "ProxyDecode"
    /\ Len(codecs) = 2
    /\ tok.kind = "issued"
    /\ tok.by = 2
    /\ last.err = nil
    /\ last.used = 2
    /\ last.attempts[1].err = ErrHMACIsInvalid
    /\ last.value = tok.value

\* C5 as claimed: a token SessionProxy.Encode returns was produced by codec
\* index 0 (the first of the list), never by a later one; when that codec
\* fails to encode, Encode returns an error and no token.
C5_EncodeFirstCodecOnly ==
    (last.op \in {"ProxyEncode", "Save"} /\ Len(codecs) > 0) =>
        /\ last.issued => last.used = 1
        /\ last.attempts[1].err # nil => (last.err # nil /\ ~last.issued)

\* The errors of Decode's steps after the MAC verification.
AfterMacErrors ==
    {ErrTimestampIsInvalid, ErrTimestampIsTooNew, ErrTimestampIsExpired,
     ErrDecryptionFailed, ErrDeserializeFailed}

\* The steps of Decode after the MAC verification.
AfterMacSteps == {"parse", "timestamp", "age", "decrypt", "deserialize"}

\* The token decodes (base64) into timestamp '|' payload '|' mac.
ThreeParts(token) ==
    /\ decode(token).err = nil
    /\ Len(SplitN3(decode(token).data)) = 3

\* C6: Decode answers with a timestamp, decryption or deserialization error,
\* and goes through the steps that produce them, only for a token whose MAC
\* verifies under the codec's hash key and the supplied name; a token that
\* reaches the MAC verification with a wrong MAC gets ErrHMACIsInvalid,
\* whatever its timestamp and payload are.
C6_MacFirst ==
    last.op = "Decode" =>
        LET c == codecs[last.codec] IN
        /\ (\E e \in AfterMacErrors : Is(last.err, e))
              => Authentic(c, last.name, Presented)
        /\ (\E k \in 1..Len(last.steps) : last.steps[k] \in AfterMacSteps)
              => Authentic(c, last.name, Presented)
        /\ (/\ c.err = nil
            /\ ~(c.maxLength # 0 /\ Len(Presented) > c.maxLength)
            /\ ThreeParts(Presented)
            /\ ~Authentic(c, last.name, Presented))
              => (last.err = ErrHMACIsInvalid
                  /\ last.steps = <<"length", "decode", "split", "mac">>)

\* A made-up token with a wrong MAC and a timestamp that is too old for the
\* codec was rejected for its MAC, not for its age.
C6_Witness ==
    /\ last.op = "Decode"
    /\ tok.kind = "forged"
    /\ ThreeParts(tok.data)
    /\ ParseInt(SplitN3(decode(tok.data).data)[1]).err = nil
    /\ timestampExpired(codecs[last.codec],
                        ParseInt(SplitN3(decode(tok.data).data)[1]).value, last.t)
    /\ last.err = ErrHMACIsInvalid

\* C7: for a token whose MAC verifies, with timestamp ts, decoded at time
\* now: Decode fails with ErrTimestampIsTooNew iff minAge # 0 and
\* ts > now - minAge; otherwise with ErrTimestampIsExpired iff maxAge # 0 and
\* ts < now - maxAge; otherwise it passes the age check and goes on to the
\* payload.
C7_Freshness ==
    (/\ last.op = "Decode"
     /\ last.tamperedAt = 0
     /\ tok.kind = "issued"
     /\ codecs[last.codec].err = nil
     /\ ~(codecs[last.codec].maxLength # 0
          /\ Len(tok.data) > codecs[last.codec].maxLength)
     /\ Authentic(codecs[last.codec], last.name, tok.data)) =>
        LET c == codecs[last.codec]
            tooNew == c.minAge # 0 /\ tok.ts > last.t - c.minAge
            expired == c.maxAge # 0 /\ tok.ts < last.t - c.maxAge
            passed == \E k \in 1..Len(last.steps) :
                         last.steps[k] = "age" /\ k < Len(last.steps)
        IN  /\ (last.err = ErrTimestampIsTooNew) <=> tooNew
            /\ (last.err = ErrTimestampIsExpired) <=> (~tooNew /\ expired)
            /\ passed <=> (~tooNew /\ ~expired)

\* A token whose age is exactly minAge and exactly maxAge was accepted.
C7_Witness ==
    /\ DecodedOwnToken
    /\ last.name = tok.name
    /\ codecs[last.codec].minAge # 0
    /\ codecs[last.codec].maxAge # 0
    /\ last.t - tok.ts = codecs[last.codec].minAge
    /\ last.t - tok.ts = codecs[last.codec].maxAge
    /\ last.err = nil

\* C8: a codec with maxLength # 0 rejects every presented token longer than
\* maxLength with ErrEncodedLengthTooLong, and the length check is the only
\* step it runs (no base64 decoding, no MAC, no read of the time source); a
\* codec with maxLength = 0 rejects no token for its length. (The codec is
\* one that was constructed without error; C9 is about the others.)
C8_LengthFirst ==
    (last.op = "Decode" /\ codecs[last.codec].err = nil) =>
        LET c == codecs[last.codec] IN
        /\ (c.maxLength # 0 /\ Len(Presented) > c.maxLength)
              => (last.err = ErrEncodedLengthTooLong /\ last.steps = <<"length">>)
        /\ (c.maxLength = 0 \/ Len(Presented) <= c.maxLength)
              => ~Is(last.err, ErrEncodedLengthTooLong)

\* An authentic token of another codec with the same hash key, longer than
\* this codec's maxLength, was rejected for its length.
C8_Witness ==
    /\ last.op = "Decode"
    /\ tok.kind = "issued"
    /\ codecs[last.codec].maxLength # 0
    /\ Len(tok.data) > codecs[last.codec].maxLength
    /\ codecs[tok.by].hashKey = codecs[last.codec].hashKey
    /\ last.err = ErrEncodedLengthTooLong

\* C9: a codec constructed with an empty hash key carries ErrHashKeyNotSet,
\* one constructed with a block key aes.NewCipher rejects carries
\* ErrCreatingBlockCipher; every Encode and Decode of such a codec returns
\* that error before any step runs, returns no token and writes no
\* destination.
C9_ConfigErrorSticky ==
    /\ \A i \in 1..Len(codecs) :
          /\ codecs[i].hashKey = <<>> => codecs[i].err = ErrHashKeyNotSet
          /\ codecs[i].err # nil =>
                (codecs[i].err = ErrHashKeyNotSet
                 \/ Is(codecs[i].err, ErrCreatingBlockCipher))
    /\ \A key \in {<<>>, BadBlockKey, BlockKey16} :
          (Len(key) \notin {16, 24, 32}) =>
              Is(NewCodec(K2, <<WithBlockKey(key), WithMaxLength(10)>>).err,
                 ErrCreatingBlockCipher)
    /\ (last.op \in {"Encode", "Decode"} /\ codecs[last.codec].err # nil) =>
          /\ last.err = codecs[last.codec].err
          /\ last.steps = <<>>
          /\ ~last.issued
          /\ last.value = NoValue

\* A codec with a bad block key and maxLength 10 was given a made-up token
\* longer than that and answered with its construction error.
C9_Witness ==
    /\ last.op = "Decode"
    /\ tok.kind = "forged"
    /\ Is(codecs[last.codec].err, ErrCreatingBlockCipher)
    /\ Len(tok.data) > codecs[last.codec].maxLength
    /\ last.err = codecs[last.codec].err

\* C10: when every codec of a non-empty list rejects the token,
\* SessionProxy.Decode (and CookieStore.Get, which returns its result)
\* returns the errors of all codecs, one per codec in list order; with an
\* empty list Decode, Encode, CookieStore.Get and CookieStore.Save return
\* ErrNoCodecs, which the joined error of an all-rejected token is not, and
\* Save writes no cookie.
C10_AggregatedRejection ==
    /\ (last.op \in {"ProxyDecode", "Get"} /\ Len(codecs) > 0 /\ last.err # nil) =>
          /\ Len(last.attempts) = Len(codecs)
          /\ last.err = Flatten([i \in 1..Len(codecs) |->
                            Decode(codecs[i], SessionName, tok.data, last.t).err])
          /\ \A i \in 1..Len(codecs) :
                /\ last.attempts[i].err # nil
                /\ \A k \in 1..Len(last.attempts[i].err) :
                      Is(last.err, <<last.attempts[i].err[k]>>)
          /\ ~Is(last.err, ErrNoCodecs)
    /\ (last.op \in {"ProxyDecode", "Get", "ProxyEncode", "Save"} /\ Len(codecs) = 0) =>
          /\ last.err = ErrNoCodecs
          /\ ~last.issued
          /\ resp = <<>>

\* Two codecs rejected a token for different reasons and the proxy returned
\* both errors.
C10_Witness ==
    /\ last.op = "Get"
    /\ Len(codecs) = 2
    /\ last.err # nil
    /\ last.attempts[1].err # last.attempts[2].err
    /\ Is(last.err, last.attempts[1].err)
    /\ Is(last.err, last.attempts[2].err)

-----------------------------------------------------------------------------
\* The session manager and the stores (ManagerSpec)

\* C11: for a name not yet registered in the request, sessionManager.Get
\* calls exactly one store method: Store.Get, with the raw cookie value and
\* IsNew false, iff the request carries a cookie with the session name, and
\* Store.New, with IsNew preset to true, iff it does not; the IsNew of the
\* returned session is the IsNew of the proxy after that call.
C11_GetNewDispatch ==
    (call.op = "Get" /\ ~call.registered) =>
        /\ Len(call.calls) = 1
        /\ call.calls[1] = "Store.Get" <=> tok.kind # "none"
        /\ call.calls[1] = "Store.Get" =>
              call.cookieValue = tok.data /\ ~call.given.IsNew
        /\ call.calls[1] = "Store.New" <=> tok.kind = "none"
        /\ call.calls[1] = "Store.New" => call.given.IsNew
        /\ call.returned => call.session.IsNew = call.proxy.IsNew

\* A request that brought the cookie of an earlier response was served
\* through Store.Get and got a session that is not new.
C11_Witness ==
    /\ call.op = "Get"
    /\ ~call.registered
    /\ tok.kind = "issued"
    /\ call.calls = <<"Store.Get">>
    /\ call.returned
    /\ ~call.session.IsNew

\* C12: when the request carries a cookie with the session name and the
\* store's Get fails (every codec rejects the token, or the backend fails),
\* sessionManager.Get returns that error and no session, calls Store.Get only
\* and never Store.New, and registers nothing in the registry of the request.
C12_RejectedCookieNotNew ==
    (/\ call.op = "Get"
     /\ ~call.registered
     /\ tok.kind # "none"
     /\ Store_Get(mgr, codecs, GetProxy, tok.data, now, files, call.disk).err # nil) =>
        /\ call.err = Store_Get(mgr, codecs, GetProxy, tok.data, now, files,
                                call.disk).err
        /\ ~call.returned
        /\ call.session = Session(NoProxy)
        /\ call.calls = <<"Store.Get">>
        /\ reg = NoSessions

\* The client came back with a cookie of an earlier response, the store
\* rejected it, and Get returned the error.
C12_Witness ==
    /\ call.op = "Get"
    /\ tok.kind = "issued"
    /\ call.calls = <<"Store.Get">>
    /\ call.err # nil
    /\ ~call.returned
    /\ reg = NoSessions

\* The last cookie of a response, and whether a cookie tells the client to
\* drop the session cookie.
LastCookie(r) == r[Len(r)]
Deleting(c) == c.Value = <<>> /\ c.MaxAge = -1

\* The last response sent set cookies and its last one was a deleting one.
LastResponseDeleted ==
    /\ Len(served) > 0
    /\ served[Len(served)] # <<>>
    /\ Deleting(LastCookie(served[Len(served)]))

\* C13: FileSystemStore.Save with max-age -1, the file system working and a
\* response writer present, returns nil whether or not a record existed,
\* leaves no record for the session ID and every other record as it was, and
\* writes exactly one cookie, with empty value and MaxAge -1; the client then
\* holds no session cookie, and its next request without one is served
\* through Store.New, not Store.Get.
C13_FileSystemDelete ==
    /\ (/\ call.op \in {"Save", "Delete"}
        /\ mgr.store = "FileSystemStore"
        /\ call.given.options.MaxAge = -1
        /\ call.disk
        /\ call.w) =>
          /\ call.err = nil
          /\ fileName(call.given.ID) \notin DOMAIN files
          /\ DOMAIN files = DOMAIN call.filesBefore \ {fileName(call.given.ID)}
          /\ \A n \in DOMAIN files : files[n] = call.filesBefore[n]
          /\ Len(call.cookies) = 1
          /\ Deleting(call.cookies[1])
          /\ LastCookie(resp) = call.cookies[1]
    /\ (mgr.store = "FileSystemStore" /\ LastResponseDeleted) =>
          /\ tok.kind # "issued"
          /\ (call.op = "Get" /\ ~call.registered /\ tok.kind = "none") =>
                /\ call.calls = <<"Store.New">>
                /\ call.returned
                /\ call.session.IsNew
                /\ call.session.storeKey = <<>>

\* A session was saved to a file, the next request deleted it, and the
\* request after that, without a cookie, was served through Store.New.
C13_Witness ==
    /\ mgr.store = "FileSystemStore"
    /\ Len(served) = 2
    /\ served[1] # <<>>
    /\ LastCookie(served[1]).MaxAge > 0
    /\ LastResponseDeleted
    /\ files = NoFiles
    /\ call.op = "Get"
    /\ call.calls = <<"Store.New">>
    /\ call.returned

\* A cookie with an empty value that has expired at time t.
Expiring(c, t) ==
    /\ c.Value = <<>>
    /\ c.MaxAge < 0
    /\ c.HasExpires
    /\ c.Expires < t

\* A Save (through Session.Save or Session.Delete) returned nil.
Saved ==
    /\ call.op \in {"Save", "Delete"}
    /\ call.err = nil

\* A Save that returned nil removed the record of the session and wrote one
\* expiring cookie with an empty value.
SaveDeleted ==
    /\ fileName(call.given.ID) \notin DOMAIN files
    /\ Len(call.cookies) = 1
    /\ Expiring(call.cookies[1], call.t)

AfterDoNotPersist ==
    /\ call.given.options.MaxAge = 0
    /\ mgr.options.MaxAge # 0

\* The cookie c carries the codec-encoded value v.
Carries(c, v) ==
    /\ c.Value # <<>>
    /\ ProxyDecode(codecs, SessionName, c.Value, call.t).err = nil
    /\ ProxyDecode(codecs, SessionName, c.Value, call.t).value = v

\* C15: after Session.DoNotPersist(), a Save that returns nil has written one
\* cookie with MaxAge 0 and no expiry that carries the encoded session (the
\* values with the CookieStore, the ID with the FileSystemStore), and with
\* the FileSystemStore the record of the session is there: the session is
\* not deleted.
C15_DoNotPersistKeeps ==
    (Saved /\ call.op = "Save" /\ AfterDoNotPersist) =>
        /\ Len(call.cookies) = 1
        /\ call.cookies[1].MaxAge = 0
        /\ ~call.cookies[1].HasExpires
        /\ IF mgr.store = "CookieStore"
           THEN Carries(call.cookies[1], call.given.Values)
           ELSE /\ call.proxy.ID # <<>>
                /\ Carries(call.cookies[1], StringValue(call.proxy.ID))
                /\ fileName(call.proxy.ID) \in DOMAIN files

\* C16: with a codec configured, a response writer and a working file
\* system, Session.Delete, and likewise Session.Expire followed by Save,
\* returns nil and writes exactly one cookie with the session name, an empty
\* value and MaxAge -1, whatever MaxAge the manager was configured with,
\* whatever the session values are and whether or not the request carried a
\* cookie.
C16_DeleteWritesCookie ==
    (/\ call.op \in {"Save", "Delete"}
     /\ call.given.options.MaxAge = -1
     /\ codecs # <<>>
     /\ call.w
     /\ call.disk) =>
        /\ call.err = nil
        /\ Len(call.cookies) = 1
        /\ call.cookies[1].Name = SessionName
        /\ Deleting(call.cookies[1])

\* The session being saved had Persist called on it: only Persist sets the
\* max-age of a session to a value of PersistAges, which no manager has.
AfterPersist ==
    /\ call.session.options.MaxAge \in PersistAges
    /\ mgr.options.MaxAge \notin PersistAges

\* A Save after Persist(n) that returned nil wrote one cookie with MaxAge n
\* and the expiry n seconds after the call.
PersistedCookie ==
    /\ Len(call.cookies) = 1
    /\ call.cookies[1].MaxAge = call.session.options.MaxAge
    /\ call.cookies[1].HasExpires
    /\ call.cookies[1].Expires = call.t + call.session.options.MaxAge

\* C17 as stated: after Session.Persist(n) with n > 0, a Save that returns
\* nil has written a cookie with MaxAge n that carries the encoding of the
\* current values of the session, whatever MaxAge the manager has and with
\* either store.
C17_PersistCarriesValues ==
    (Saved /\ call.op = "Save" /\ AfterPersist) =>
        /\ PersistedCookie
        /\ Carries(call.cookies[1], call.session.Values)

\* C17: after Session.Persist(n) with n > 0, a Save that returns nil has
\* written one cookie with MaxAge n and expiry now + n, whatever MaxAge the
\* manager has; with the CookieStore the cookie carries the encoding of the
\* current values of the session, with the FileSystemStore it carries the
\* encoding of the session ID and the record of that ID holds the encoding of
\* the current values.
C17_PersistOverrides ==
    (Saved /\ call.op = "Save" /\ AfterPersist) =>
        /\ PersistedCookie
        /\ IF mgr.store = "CookieStore"
           THEN Carries(call.cookies[1], call.session.Values)
           ELSE /\ Carries(call.cookies[1], StringValue(call.proxy.ID))
                /\ fileName(call.proxy.ID) \in DOMAIN files
                /\ ProxyDecode(codecs, SessionName,
                               files[fileName(call.proxy.ID)], call.t).err = nil
                /\ ProxyDecode(codecs, SessionName,
                               files[fileName(call.proxy.ID)], call.t).value
                      = call.session.Values

\* A manager configured with MaxAge 0: the handler set the values to "hi",
\* called Persist(60) and saved.
C17_Witness ==
    /\ Saved
    /\ call.op = "Save"
    /\ AfterPersist
    /\ mgr.options.MaxAge = 0
    /\ call.session.Values = StringValue(<<104, 105>>)
    /\ call.cookies[1].MaxAge = 60

\* A Save that returned nil did so through SessionProxy.Save: every
\* CookieStore.Save, and FileSystemStore.Save with a positive max-age.
ThroughProxySave ==
    /\ Saved
    /\ mgr.store = "CookieStore" \/ call.given.options.MaxAge > 0

\* The value the store handed to SessionProxy.Save: the encoded values with
\* the CookieStore, the encoded ID with the FileSystemStore.
SuppliedValue ==
    IF mgr.store = "CookieStore"
    THEN ProxyEncode(codecs, SessionName, call.given.Values, call.t, NoIVs).data
    ELSE ProxyEncode(codecs, SessionName, StringValue(call.proxy.ID), call.t,
                     NoIVs).data

\* The attributes of the cookie c other than value, max-age and expiry are
\* those of the options o.
AttributesOf(c, o) ==
    /\ c.Name = o.Name
    /\ c.Path = o.Path
    /\ c.Domain = o.Domain
    /\ c.Secure = o.Secure
    /\ c.HttpOnly = o.HttpOnly
    /\ c.Partitioned = o.Partitioned
    /\ c.SameSite = o.SameSite

\* C18: SessionProxy.Save(value) with a response writer writes one cookie
\* with the max-age of the options: a positive one gives the supplied value
\* and the expiry now + maxAge, a negative one an empty value and an expiry in
\* the past, zero the supplied value and no expiry; name, path, domain,
\* secure, http-only, partitioned and same-site are those of the options.
C18_ProxySaveShape ==
    ThroughProxySave =>
        /\ Len(call.cookies) = 1
        /\ AttributesOf(call.cookies[1], call.given.options)
        /\ call.cookies[1].MaxAge = call.given.options.MaxAge
        /\ call.given.options.MaxAge > 0 =>
              /\ call.cookies[1].Value = SuppliedValue
              /\ call.cookies[1].HasExpires
              /\ call.cookies[1].Expires = call.t + call.given.options.MaxAge
        /\ call.given.options.MaxAge < 0 =>
              /\ call.cookies[1].Value = <<>>
              /\ SuppliedValue # <<>>
              /\ call.cookies[1].HasExpires
              /\ call.cookies[1].Expires < call.t
        /\ call.given.options.MaxAge = 0 =>
              /\ call.cookies[1].Value = SuppliedValue
              /\ ~call.cookies[1].HasExpires

\* A manager whose options have MaxAge 0, Path "/app", Secure and SameSite
\* Strict saved the value "hi" and the cookie has them all and no expiry.
C18_Witness ==
    /\ ThroughProxySave
    /\ call.given.options.MaxAge = 0
    /\ call.given.Values = StringValue(<<104, 105>>)
    /\ call.cookies[1].Value = SuppliedValue
    /\ call.cookies[1].Path = "/app"
    /\ call.cookies[1].Secure
    /\ call.cookies[1].SameSite = "Strict"
    /\ ~call.cookies[1].HasExpires

-----------------------------------------------------------------------------
\* SessionProxy.Delete called directly (Spec)

\* C19: SessionProxy.Delete() with a response writer writes one cookie with
\* an empty value, MaxAge -1 and the expiry time.Unix(1, 0), which is in the
\* past, whether the configured max-age is positive, zero or negative, and
\* without one it returns ErrNoResponseWriter and writes nothing; in both
\* cases the configured max-age and the other options are what they were.
C19_ProxyDeleteAlways ==
    last.op = "Delete" =>
        /\ last.options = [NewCookieOptions EXCEPT !.Name = SessionName,
                                                   !.MaxAge = last.age]
        /\ IF last.err = nil
           THEN /\ Len(resp) = 1
                /\ Deleting(resp[1])
                /\ resp[1].HasExpires
                /\ resp[1].Expires = 1
                /\ last.t > 1 => resp[1].Expires < last.t
                /\ AttributesOf(resp[1], last.options)
           ELSE /\ last.err = ErrNoResponseWriter
                /\ resp = <<>>

\* Delete on a proxy with a positive max-age wrote the deleting cookie, whose
\* expiry is in the past, and the max-age is still positive.
C19_Witness ==
    /\ last.op = "Delete"
    /\ last.err = nil
    /\ last.age > 0
    /\ last.options.MaxAge = last.age
    /\ Deleting(resp[1])
    /\ resp[1].Expires < last.t

-----------------------------------------------------------------------------
\* The FileSystemStore round trip (ManagerSpec)

\* A FileSystemStore.Save with a positive max-age returned nil, and the
\* random source delivered if it was asked.
FileSaved ==
    /\ Saved
    /\ mgr.store = "FileSystemStore"
    /\ call.given.options.MaxAge > 0
    /\ call.rnd

\* Tokens issued at the time of the call are inside the age window of every
\* codec at time t.
InWindowAt(t) ==
    \A i \in 1..Len(codecs) :
        /\ codecs[i].maxAge # 0 => call.t >= t - codecs[i].maxAge
        /\ codecs[i].minAge # 0 => call.t <= t - codecs[i].minAge

\* FileSystemStore.Get at time t, on the proxy of a later request, of the
\* cookie the call wrote.
GetAgain(t) ==
    FileSystemStore_Get(codecs, GetProxy, call.cookies[1].Value, t, files, TRUE)

\* C20: after a FileSystemStore.Save with max-age > 0 that returned nil (the
\* random source delivering), the record named by the session ID holds
\* exactly the codec-encoded session values and the other records are
\* untouched; the cookie value is the codec-encoded ID, which no session
\* value enters; a non-empty ID is reused and an empty one is replaced by a
\* fresh random ID that names no earlier record; and FileSystemStore.Get of
\* that cookie, at any time inside the age window of the codecs, yields the
\* same ID and the same values.
C20_FileSystemRoundTrip ==
    FileSaved =>
        /\ call.proxy.ID # <<>>
        /\ IF call.given.ID # <<>>
           THEN call.proxy.ID = call.given.ID
           ELSE /\ call.proxy.ID = RandomID(ids)
                /\ fileName(call.proxy.ID) \notin DOMAIN call.filesBefore
        /\ DOMAIN files = DOMAIN call.filesBefore \cup {fileName(call.proxy.ID)}
        /\ \A n \in DOMAIN call.filesBefore \ {fileName(call.proxy.ID)} :
              files[n] = call.filesBefore[n]
        /\ files[fileName(call.proxy.ID)]
              = ProxyEncode(codecs, SessionName, call.given.Values, call.t,
                            NoIVs).data
        /\ Len(call.cookies) = 1
        /\ call.cookies[1].Value
              = ProxyEncode(codecs, SessionName, StringValue(call.proxy.ID),
                            call.t, NoIVs).data
        /\ call.cookies[1].Value # files[fileName(call.proxy.ID)]
        /\ \A t \in call.t..(StartTime + MaxTime) :
              InWindowAt(t) =>
                 /\ GetAgain(t).err = nil
                 /\ GetAgain(t).proxy.ID = call.proxy.ID
                 /\ GetAgain(t).proxy.Values = call.given.Values

\* The session saved to a file as "hi" in one request was read back from
\* its cookie in a later request, at a later time, with the same ID and
\* value.
C20_Witness ==
    /\ mgr.store = "FileSystemStore"
    /\ call.op = "Get"
    /\ tok.kind = "issued"
    /\ tok.ts < call.t
    /\ call.returned
    /\ call.session.storeKey = RandomID(1)
    /\ call.session.Values = StringValue(<<104, 105>>)
    /\ ~call.session.IsNew

-----------------------------------------------------------------------------
\* The random source of FileSystemStore.Save (ManagerSpec)

\* FileSystemStore.Save needed a fresh session ID and the random source
\* failed.
RandomFailed ==
    /\ call.op \in {"Save", "Delete"}
    /\ mgr.store = "FileSystemStore"
    /\ call.given.options.MaxAge > 0
    /\ call.given.ID = <<>>
    /\ ~call.rnd

\* C21: if the random source fails while FileSystemStore.Save, called with
\* a response writer, needs a fresh session ID, Save returns an error and
\* writes neither a record nor a cookie; it never goes on with an empty ID.
C21_RandomFailureFatal ==
    (RandomFailed /\ call.w) =>
        /\ call.err # nil
        /\ files = call.filesBefore
        /\ call.cookies = <<>>
        /\ fileName(<<>>) \notin DOMAIN files

-----------------------------------------------------------------------------
\* The file operations of FileSystemStore run by concurrent requests
\* (FileSpec)
\*
\* Every request is served by its own goroutine. FileSystemStore.read, write
\* and delete take the package variable fsMutex, call the os package and
\* release fsMutex when they return. A call of the os package takes time:
\* it starts and it returns, and other goroutines run in between.

\* The goroutines serving requests at the same time.
MaxGoroutines == 2
Goroutines == 1 .. MaxGoroutines

\* The files the operations are called on and the data written.
FileNames == {fileName(RandomID(1)), fileName(RandomID(2))}
FileData == {<<97>>, <<97, 98>>}

\* The stores: without a file size limit, and with a limit of one byte.
FileManagers ==
    [store : {"FileSystemStore"},
     options : {[NewCookieOptions EXCEPT !.Name = SessionName]},
     maxFileSize : {0, 1}]

\* A goroutine that is not inside read, write or delete.
IdleProc == [pc |-> "idle", op |-> "none", name |-> <<>>, data |-> <<>>,
             err |-> nil]

FileInit ==
    /\ codecs = <<>>
    /\ now = 0
    /\ tok = NoToken
    /\ last = NoCall
    /\ resp = <<>>
    /\ mgr \in FileManagers
    /\ files = NoFiles
    /\ ids = 0
    /\ reg = NoSessions
    /\ served = <<>>
    /\ call = NoManagerCall
    /\ fsMutex = Unlocked
    /\ procs = [g \in Goroutines |-> IdleProc]
    /\ flash = NewFlash
    /\ log = <<>>

\* Goroutine g enters fs.read(name), fs.write(name, data) or fs.delete(name).
FileCall(g, op, name, data) ==
    /\ procs[g].pc = "idle"
    /\ op = "write" \/ data = <<>>
    /\ procs' = [procs EXCEPT ![g] = [pc |-> "called", op |-> op,
                                      name |-> name, data |-> data,
                                      err |-> nil]]
    /\ UNCHANGED <<codecs, now, tok, last, resp, mgr, files, ids, reg,
                   served, call, fsMutex, flvars>>

\* write returns ErrEncodedLengthTooLong before it takes fsMutex.
WriteTooLong(g) ==
    /\ procs[g].pc = "called"
    /\ procs[g].op = "write"
    /\ mgr.maxFileSize > 0 /\ Len(procs[g].data) > mgr.maxFileSize
    /\ procs' = [procs EXCEPT ![g] = IdleProc]
    /\ UNCHANGED <<codecs, now, tok, last, resp, mgr, files, ids, reg,
                   served, call, fsMutex, flvars>>

\* A Lock that does not wait for the holder of fsMutex.
MutexLock_NoWait(g) ==
    /\ procs[g].pc = "called"
    /\ fsMutex' = g
    /\ procs' = [procs EXCEPT ![g].pc = "locked"]
    /\ UNCHANGED <<codecs, now, tok, last, resp, mgr, files, ids, reg,
                   served, call, flvars>>

\* fsMutex.Lock(): goroutine g waits until nobody holds fsMutex and takes it.
MutexLock(g) ==
    /\ procs[g].pc = "called"
    /\ procs[g].op = "write" =>
          ~(mgr.maxFileSize > 0 /\ Len(procs[g].data) > mgr.maxFileSize)
    /\ fsMutex = Unlocked
    /\ fsMutex' = g
    /\ procs' = [procs EXCEPT ![g].pc = "locked"]
    /\ UNCHANGED <<codecs, now, tok, last, resp, mgr, files, ids, reg,
                   served, call, flvars>>

\* os.ReadFile, os.WriteFile or os.Remove starts. When the disk fails the
\* call returns an error at once; os.WriteFile opens the file with O_TRUNC,
\* so while it runs the file is there and empty.
OsStart(g, disk) ==
    /\ procs[g].pc = "locked"
    /\ procs' = [procs EXCEPT ![g].pc = IF disk THEN "os" ELSE "returned",
                              ![g].err = IF disk THEN nil ELSE PathError]
    /\ files' = IF disk /\ procs[g].op = "write"
                THEN write(files, 0, procs[g].name, <<>>, TRUE).files
                ELSE files
    /\ UNCHANGED <<codecs, now, tok, last, resp, mgr, ids, reg, served, call,
                   fsMutex, flvars>>

\* The call of the os package returns.
OsReturn(g) ==
    /\ procs[g].pc = "os"
    /\ \/ /\ procs[g].op = "read"
          /\ procs' = [procs EXCEPT
                          ![g].pc = "returned",
                          ![g].err = read(files, procs[g].name, TRUE).err,
                          ![g].data = read(files, procs[g].name, TRUE).data]
          /\ files' = files
       \/ /\ procs[g].op = "write"
          /\ procs' = [procs EXCEPT ![g].pc = "returned"]
          /\ files' = write(files, 0, procs[g].name, procs[g].data, TRUE).files
       \/ /\ procs[g].op = "delete"
          /\ procs' = [procs EXCEPT ![g].pc = "returned"]
          /\ files' = delete(files, procs[g].name, TRUE).files
    /\ UNCHANGED <<codecs, now, tok, last, resp, mgr, ids, reg, served, call,
                   fsMutex, flvars>>

\* A MutexUnlock that is skipped when the os call returned an error.
MutexUnlock_OnSuccess(g) ==
    /\ procs[g].pc = "returned"
    /\ fsMutex' = IF procs[g].err = nil THEN Unlocked ELSE fsMutex
    /\ procs' = [procs EXCEPT ![g] = IdleProc]
    /\ UNCHANGED <<codecs, now, tok, last, resp, mgr, files, ids, reg,
                   served, call, flvars>>

\* The deferred fsMutex.Unlock() runs and read, write or delete returns.
MutexUnlock(g) ==
    /\ procs[g].pc = "returned"
    /\ fsMutex' = Unlocked
    /\ procs' = [procs EXCEPT ![g] = IdleProc]
    /\ UNCHANGED <<codecs, now, tok, last, resp, mgr, files, ids, reg,
                   served, call, flvars>>

FileNext ==
    \E g \in Goroutines :
        \/ \E op \in {"read", "write", "delete"}, name \in FileNames,
              data \in FileData \cup {<<>>} : FileCall(g, op, name, data)
        \/ WriteTooLong(g)
        \/ MutexLock(g)
        \/ \E disk \in BOOLEAN : OsStart(g, disk)
        \/ OsReturn(g)
        \/ MutexUnlock(g)

FileSpec == FileInit /\ [][FileNext]_vars

\* Goroutine g is inside a call of os.ReadFile, os.WriteFile or os.Remove.
InProgress(g) == procs[g].pc = "os"

\* C22: at any moment at most one file operation of FileSystemStore is in
\* progress, and the goroutine running it holds fsMutex; so no two writes
\* of a record overlap and no read of a record overlaps a write or a removal
\* of it.
C22_FileMutualExclusion ==
    \A g \in Goroutines :
        InProgress(g) =>
            /\ fsMutex = g
            /\ \A h \in Goroutines \ {g} : ~InProgress(h)

\* A write of a record is in progress while another goroutine has called
\* read on the same record and waits for fsMutex.
C22_Witness ==
    \E g \in Goroutines, h \in Goroutines :
        /\ InProgress(g) /\ procs[g].op = "write"
        /\ procs[h].pc = "called" /\ procs[h].op = "read"
        /\ procs[h].name = procs[g].name

-----------------------------------------------------------------------------
\* Several session managers on one request: the registry (RegistrySpec)
\*
\* An application has a session manager per cookie name and value type. The
\* managers of a request share its registry (registry.go): Get registers the
\* session it builds under the name of its cookie, and sessions.Save saves
\* every registered session.

ErrInvalidSessionType == <<"ErrInvalidSessionType">>
ErrInternalServerError == <<"ErrInternalServerError">>

\* ErrInternalServerError.Wrapf(err, ...): an error of that kind that
\* unwraps to err.
Wrapf(kind, err) == kind \o err

NameA == <<97>>
NameB == <<98>>
NameC == <<99>>

\* new(T) for the value types of the managers: a string, or a channel (a
\* type no serializer can represent).
ZeroValue(T) == IF T = "string" THEN StringValue(<<>>) ELSE ChanValue

\* NewSessionManager[T](CookieOptions{Name: name}, store, codecs...); leaves
\* is the type of the value a stub store assigns to proxy.Values.
RegistryManager(T, store, name, cs, leaves) ==
    [T |-> T, store |-> store,
     options |-> [NewCookieOptions EXCEPT !.Name = name],
     maxFileSize |-> 0, codecs |-> cs, leaves |-> leaves]

\* The managers: strings in a cookie under "a"; strings in a cookie under
\* "b" with a codec limited to 30 bytes; strings in a file under "c";
\* channels in a cookie under "a"; and strings under "b" with a store that
\* leaves a channel in the proxy.
RegistryManagers ==
    {RegistryManager("string", "CookieStore", NameA,
                     <<NewCodec(K1, <<>>)>>, "string"),
     RegistryManager("string", "CookieStore", NameB,
                     <<NewCodec(K1, <<WithMaxLength(30)>>)>>, "string"),
     RegistryManager("string", "FileSystemStore", NameC,
                     <<NewCodec(K1, <<>>)>>, "string"),
     RegistryManager("chan", "CookieStore", NameA,
                     <<NewCodec(K1, <<>>)>>, "chan"),
     RegistryManager("string", "stubStore", NameB,
                     <<NewCodec(K1, <<>>)>>, "chan")}

\* The cookie "b" a client holds after the manager of "b" saved a new
\* session at StartTime.
RegistryCookie ==
    ProxyEncode(<<NewCodec(K1, <<WithMaxLength(30)>>)>>, NameB,
                StringValue(<<>>), StartTime, <<NoIV>>).data

\* The requests: without cookies, or with the cookie "b".
RegistryTokens ==
    {NoToken,
     [NoToken EXCEPT !.kind = "issued", !.data = RegistryCookie,
                     !.name = NameB]}

\* A store whose Get and New assign a value of its own to proxy.Values and
\* return nil.
StubStore_Leave(m, proxy, fls) ==
    StoreResult(nil, [proxy EXCEPT !.Values = ZeroValue(m.leaves)], fls, <<>>)

\* sm.store.Get, New and Save of manager m.
ManagerStore_Get(m, proxy, cookieValue, t, fls, disk) ==
    IF m.store = "stubStore" THEN StubStore_Leave(m, proxy, fls)
    ELSE Store_Get(m, m.codecs, proxy, cookieValue, t, fls, disk)

ManagerStore_New(m, proxy, fls) ==
    IF m.store = "stubStore" THEN StubStore_Leave(m, proxy, fls)
    ELSE Store_New(proxy, fls)

ManagerStore_Save(m, proxy, t, fls, rid, disk) ==
    IF m.store = "stubStore" THEN StoreResult(nil, proxy, fls, <<>>)
    ELSE Store_Save(m, m.codecs, proxy, t, fls, rid, disk,
                    [i \in 1..Len(m.codecs) |-> NoIV])

\* The *Session[T] that manager m builds from the proxy; addr is the
\* address of the new object.
TypedSession(m, proxy, addr) ==
    [Values |-> proxy.Values, IsNew |-> proxy.IsNew, storeKey |-> proxy.ID,
     options |-> proxy.options, T |-> m.T, manager |-> m, addr |-> addr]

\* No session (a nil *Session[T]).
NilSession == TypedSession(RegistryManager("none", "none", <<>>, <<>>, "none"),
                           NoProxy, 0)

\* What sessionManager.Get returns and leaves behind: the registry, the
\* store methods it called and the type of the value they left in the proxy.
GetResult(err, session, registry, calls, left) ==
    [err |-> err, session |-> session, registry |-> registry,
     calls |-> calls, left |-> left]

\* The proxy sessionManager.Get of manager m starts with.
TypedProxy(m) == SessionProxy(<<>>, ZeroValue(m.T), FALSE, m.options, FALSE)

\* The address of the next Session object of the request.
NextAddr(registry) == Cardinality(DOMAIN registry) + 1

\* sessionManager.Get once the store returned r: the type assertion on
\* proxy.Values, the new Session and reg.set.
GotFromStore_Unchecked(m, registry, calls, r) ==
    IF r.err # nil
    THEN GetResult(r.err, NilSession, registry, calls, "none")
    ELSE GetResult(nil, TypedSession(m, r.proxy, NextAddr(registry)),
                   [n \in DOMAIN registry \cup {m.options.Name} |->
                       IF n = m.options.Name
                       THEN TypedSession(m, r.proxy, NextAddr(registry))
                       ELSE registry[n]],
                   calls, r.proxy.Values.kind)

GotFromStore(m, registry, calls, r) ==
    IF r.err # nil
    THEN GetResult(r.err, NilSession, registry, calls, "none")
    ELSE IF r.proxy.Values.kind # m.T
    THEN GetResult(ErrInvalidSessionType, NilSession, registry, calls,
                   r.proxy.Values.kind)
    ELSE GetResult(nil, TypedSession(m, r.proxy, NextAddr(registry)),
                   [n \in DOMAIN registry \cup {m.options.Name} |->
                       IF n = m.options.Name
                       THEN TypedSession(m, r.proxy, NextAddr(registry))
                       ELSE registry[n]],
                   calls, r.proxy.Values.kind)

\* sessionManager.Get(r) of manager m on a request with cookie c and the
\* registry given.
sessionManager_Get(m, registry, c, t, fls, disk) ==
    IF m.options.Name \in DOMAIN registry
    THEN IF registry[m.options.Name].T = m.T
         THEN GetResult(nil, registry[m.options.Name], registry, <<>>, "none")
         ELSE GetResult(ErrInvalidSessionType, NilSession, registry, <<>>,
                        "none")
    ELSE IF c.kind # "none" /\ c.name = m.options.Name
    THEN GotFromStore(m, registry, <<"Store.Get">>,
                      ManagerStore_Get(m, TypedProxy(m), c.data, t, fls, disk))
    ELSE GotFromStore(m, registry, <<"Store.New">>,
                      ManagerStore_New(m, [TypedProxy(m) EXCEPT !.IsNew = TRUE],
                                       fls))

\* Session.Save(w, r): sessionManager.Save of the manager of the session.
Session_Save(session, w, t, fls, rid, disk) ==
    ManagerStore_Save(session.manager, SaveProxy(session, w), t, fls, rid, disk)

\* Whether Session.Save calls randomID.
SessionNeedsID(session) ==
    /\ session.manager.store = "FileSystemStore"
    /\ session.options.MaxAge > 0
    /\ session.storeKey = <<>>

\* sessions.Save after session.Save of the session called name returned r:
\* the calls made, the errors collected, the files and the cookies written.
RegistrySaved(acc, name, needsID, r) ==
    [saved |-> Append(acc.saved, [name |-> name, err |-> r.err]),
     errs |-> IF r.err = nil THEN acc.errs
              ELSE Append(acc.errs, Wrapf(ErrInternalServerError, r.err)),
     files |-> r.files,
     cookies |-> acc.cookies \o r.cookies,
     ids |-> IF needsID THEN acc.ids + 1 ELSE acc.ids]

\* A loop that stops at the first session whose Save fails.
RECURSIVE RegistrySaveFrom_StopAtError(_, _, _, _, _, _, _)
RegistrySaveFrom_StopAtError(registry, order, i, w, t, disk, acc) ==
    IF i > Len(order) \/ acc.errs # <<>> THEN acc
    ELSE RegistrySaveFrom_StopAtError(registry, order, i + 1, w, t, disk,
             RegistrySaved(acc, order[i], SessionNeedsID(registry[order[i]]),
                 Session_Save(registry[order[i]], w, t, acc.files,
                              RandomID(acc.ids + 1), disk)))

\* The loop of sessions.Save over reg.sessions, in the order the map
\* iteration takes, from its i-th round on.
RECURSIVE RegistrySaveFrom(_, _, _, _, _, _, _)
RegistrySaveFrom(registry, order, i, w, t, disk, acc) ==
    IF i > Len(order) THEN acc
    ELSE RegistrySaveFrom(registry, order, i + 1, w, t, disk,
             RegistrySaved(acc, order[i], SessionNeedsID(registry[order[i]]),
                 Session_Save(registry[order[i]], w, t, acc.files,
                              RandomID(acc.ids + 1), disk)))

\* sessions.Save(w, r): the loop, and errors.Join of what it collected.
Registry_Save(registry, order, w, t, fls, n, disk) ==
    RegistrySaveFrom(registry, order, 1, w, t, disk,
                     [saved |-> <<>>, errs |-> <<>>, files |-> fls,
                      cookies |-> <<>>, ids |-> n])

\* The orders in which a map iteration can visit the names.
Orders(names) ==
    {o \in UNION {[1..k -> names] : k \in {Cardinality(names)}} :
        \A i \in 1..Len(o), j \in 1..Len(o) : i # j => o[i] # o[j]}

\* No call on the managers or the registry has returned since the handler
\* went on.
NoRegistryCall ==
    [op |-> "none", manager |-> NilSession.manager, w |-> FALSE,
     disk |-> TRUE, order |-> <<>>, err |-> nil, session |-> NilSession,
     calls |-> <<>>, left |-> "none", saved |-> <<>>, cookies |-> <<>>,
     regBefore |-> NoSessions, filesBefore |-> NoFiles]

RegistryInit ==
    /\ codecs = <<>>
    /\ now = StartTime
    /\ tok \in RegistryTokens
    /\ last = NoCall
    /\ resp = <<>>
    /\ mgr = NoManager
    /\ files = NoFiles
    /\ ids = 0
    /\ reg = NoSessions
    /\ served = <<>>
    /\ call = NoRegistryCall
    /\ fsMutex = Unlocked
    /\ procs = NoProcs
    /\ flash = NewFlash
    /\ log = <<>>

\* The handler calls Get on manager m.
RegistryGet(m) ==
    /\ call.op = "none"
    /\ \E r \in {sessionManager_Get(m, reg, tok, now, files, TRUE)} :
          /\ call' = [NoRegistryCall EXCEPT
                         !.op = "Get", !.manager = m,
                         !.err = r.err, !.session = r.session,
                         !.calls = r.calls, !.left = r.left,
                         !.regBefore = reg, !.filesBefore = files]
          /\ reg' = r.registry
    /\ UNCHANGED <<codecs, now, tok, last, resp, mgr, files, ids, served,
                   fsvars, flvars>>

\* The handler assigns the Values of a session of strings.
RegistrySetValues(name, v) ==
    /\ call.op = "none"
    /\ name \in DOMAIN reg
    /\ reg[name].T = "string"
    /\ reg[name].Values # v
    /\ reg' = [reg EXCEPT ![name].Values = v]
    /\ UNCHANGED <<codecs, now, tok, last, resp, mgr, files, ids, served,
                   call, fsvars, flvars>>

\* How many sessions of the registry call randomID when they are saved.
IDsNeeded(registry) ==
    Cardinality({n \in DOMAIN registry : SessionNeedsID(registry[n])})

\* The handler calls sessions.Save(w, r).
RegistrySave(w, order, disk) ==
    /\ call.op = "none"
    /\ order \in Orders(DOMAIN reg)
    /\ ids + IDsNeeded(reg) <= MaxIDs
    /\ \E r \in {Registry_Save(reg, order, w, now, files, ids, disk)} :
          /\ call' = [NoRegistryCall EXCEPT
                         !.op = "Save", !.w = w, !.disk = disk,
                         !.order = order, !.err = Join(r.errs),
                         !.saved = r.saved, !.cookies = r.cookies,
                         !.regBefore = reg, !.filesBefore = files]
          /\ files' = r.files
          /\ resp' = resp \o r.cookies
          /\ ids' = r.ids
    /\ UNCHANGED <<codecs, now, tok, last, mgr, reg, served, fsvars, flvars>>

\* The handler calls Save(w, r) on the session registered as name (in the
\* model: the session kept in a file), before anything was written to the
\* response.
RegistrySessionSave(name, w) ==
    /\ call.op = "none"
    /\ name \in DOMAIN reg
    /\ resp = <<>>
    /\ SessionNeedsID(reg[name]) => ids < MaxIDs
    /\ \E r \in {Session_Save(reg[name], w, now, files, RandomID(ids + 1),
                               TRUE)} :
          /\ call' = [NoRegistryCall EXCEPT
                         !.op = "Session.Save", !.w = w,
                         !.manager = reg[name].manager,
                         !.err = r.err, !.session = reg[name],
                         !.calls = <<"Store.Save">>,
                         !.cookies = r.cookies,
                         !.regBefore = reg, !.filesBefore = files]
          /\ files' = r.files
          /\ resp' = resp \o r.cookies
    /\ ids' = IF SessionNeedsID(reg[name]) THEN ids + 1 ELSE ids
    /\ UNCHANGED <<codecs, now, tok, last, mgr, reg, served, fsvars, flvars>>

\* The handler goes on after Get or Session.Save.
RegistryResume ==
    /\ call.op \in {"Get", "Session.Save"}
    /\ call' = NoRegistryCall
    /\ UNCHANGED <<codecs, now, tok, last, resp, mgr, files, ids, reg,
                   served, fsvars, flvars>>

\* The handler returns after sessions.Save; the next request arrives with
\* a registry of its own.
RegistryEndRequest(c) ==
    /\ call.op = "Save"
    /\ call' = NoRegistryCall
    /\ reg' = NoSessions
    /\ resp' = <<>>
    /\ tok' = c
    /\ UNCHANGED <<codecs, now, last, mgr, files, ids, served, fsvars, flvars>>

RegistryNext ==
    \/ \E m \in RegistryManagers : RegistryGet(m)
    \/ \E name \in {NameA, NameB, NameC}, v \in SessionValues :
          RegistrySetValues(name, v)
    \/ \E w \in BOOLEAN, disk \in BOOLEAN,
          order \in Orders({NameA, NameB, NameC})
                    \cup Orders({NameA, NameB}) \cup Orders({NameA, NameC})
                    \cup Orders({NameB, NameC}) \cup Orders({NameA})
                    \cup Orders({NameB}) \cup Orders({NameC}) \cup {<<>>} :
          RegistrySave(w, order, disk)
    \/ \E name \in {NameC}, w \in BOOLEAN : RegistrySessionSave(name, w)
    \/ RegistryResume
    \/ \E c \in RegistryTokens : RegistryEndRequest(c)

RegistrySpec == RegistryInit /\ [][RegistryNext]_vars

-----------------------------------------------------------------------------
\* Claims on the registry (RegistrySpec)

\* The error Session.Save returns for the session registered as n when
\* sessions.Save was called.
SaveErrOf(n) ==
    Session_Save(call.regBefore[n], call.w, now, call.filesBefore,
                 RandomID(1), call.disk).err

\* C23: sessions.Save(w, r) calls Save exactly once on every session
\* registered for the request, also after one of them failed; it returns nil
\* iff every Save returned nil, and otherwise an error that contains the
\* error of every session that failed.
C23_BatchSave ==
    call.op = "Save" =>
        /\ Len(call.saved) = Cardinality(DOMAIN call.regBefore)
        /\ \A n \in DOMAIN call.regBefore :
              \E i \in 1..Len(call.saved) :
                  /\ call.saved[i].name = n
                  /\ call.saved[i].err = SaveErrOf(n)
        /\ (call.err = nil) <=>
              (\A n \in DOMAIN call.regBefore : SaveErrOf(n) = nil)
        /\ \A n \in DOMAIN call.regBefore :
              \A j \in 1..Len(SaveErrOf(n)) :
                  Is(call.err, <<SaveErrOf(n)[j]>>)

\* sessions.Save on three sessions: the first one visited fails, the other
\* two are saved and their cookies are written, and an error is returned.
C23_Witness ==
    /\ call.op = "Save"
    /\ Len(call.saved) = 3
    /\ call.saved[1].err # nil
    /\ call.saved[2].err = nil
    /\ call.saved[3].err = nil
    /\ Len(call.cookies) = 2
    /\ call.err # nil

\* C24: a Get for a name under which the request has a session of the
\* manager's value type returns that very Session object without calling
\* the store; a Get for a name under which a session of another value type
\* is registered, or whose store left a value of another type in the proxy,
\* returns ErrInvalidSessionType and no session. A session is registered
\* exactly when Get has succeeded.
C24_RegistryGet ==
    call.op = "Get" =>
        /\ (/\ call.manager.options.Name \in DOMAIN call.regBefore
            /\ call.regBefore[call.manager.options.Name].T = call.manager.T) =>
              /\ call.err = nil
              /\ call.session = call.regBefore[call.manager.options.Name]
              /\ call.calls = <<>>
              /\ reg = call.regBefore
        /\ (/\ call.manager.options.Name \in DOMAIN call.regBefore
            /\ call.regBefore[call.manager.options.Name].T # call.manager.T) =>
              /\ call.err = ErrInvalidSessionType
              /\ call.session = NilSession
              /\ call.calls = <<>>
              /\ reg = call.regBefore
        /\ (/\ call.manager.options.Name \notin DOMAIN call.regBefore
            /\ call.left \notin {"none", call.manager.T}) =>
              /\ call.err = ErrInvalidSessionType
              /\ call.session = NilSession
              /\ reg = call.regBefore
        /\ call.err = nil =>
              /\ call.manager.options.Name \in DOMAIN reg
              /\ reg[call.manager.options.Name] = call.session
        /\ call.err # nil => reg = call.regBefore

\* A second manager of strings for the cookie "b" gets the session the
\* first manager registered, with the values the handler has assigned since.
C24_Witness ==
    /\ call.op = "Get"
    /\ call.manager.store = "stubStore"
    /\ NameB \in DOMAIN call.regBefore
    /\ call.regBefore[NameB].manager.store = "CookieStore"
    /\ call.session = call.regBefore[NameB]
    /\ call.session.Values = StringValue(<<104, 105>>)
    /\ call.calls = <<>>

\* A Get for a name under which a session of another type is registered.
C24_OtherTypeRegistered ==
    /\ call.op = "Get"
    /\ NameA \in DOMAIN call.regBefore
    /\ call.regBefore[NameA].T # call.manager.T
    /\ call.manager.options.Name = NameA

\* A Get whose store left a value of another type in the proxy.
C24_OtherTypeLeft ==
    /\ call.op = "Get"
    /\ call.calls = <<"Store.Get">>
    /\ call.left = "chan"
    /\ call.manager.T = "string"

-----------------------------------------------------------------------------
\* Flash messages (FlashSpec)
\*
\* A Flash lives in the values of a session: the handler of a request calls
\* Add, Now, Keep, Get, Remove and Clear on it; when the session is saved the
\* Flash is serialized, and the next request deserializes it into a new
\* Flash. The gob and the binary form carry the same two maps as the JSON
\* form.

\* The messages the handler stores; Add, Now and Keep ignore the empty one.
Messages == {"m", "x"}

\* The calls made on one Flash over its requests, and how many of them have
\* a key other than "k".
MaxCalls == 5
MaxOtherCalls == 1

\* Flash.Get(key): the message under key in now, else in flashes, else in
\* keep; a message found is deleted from the three maps.
Flash_Message(f, key) ==
    IF f.now[key] # "" THEN f.now[key]
    ELSE IF f.flashes[key] # "" THEN f.flashes[key]
    ELSE f.keep[key]

\* A Get that leaves the message where it found it.
Flash_Get_NoDelete(f, key) ==
    [message |-> Flash_Message(f, key), flash |-> f]

Flash_Get(f, key) ==
    IF Flash_Message(f, key) # ""
    THEN [message |-> Flash_Message(f, key),
          flash |-> [flashes |-> [f.flashes EXCEPT ![key] = ""],
                     now |-> [f.now EXCEPT ![key] = ""],
                     keep |-> [f.keep EXCEPT ![key] = ""]]]
    ELSE [message |-> "", flash |-> f]

\* Flash.Add(key, message), Flash.Now(key, message), Flash.Keep(key, message)
Flash_Add(f, key, message) ==
    IF message = "" THEN f ELSE [f EXCEPT !.flashes[key] = message]

Flash_Now(f, key, message) ==
    IF message = "" THEN f ELSE [f EXCEPT !.now[key] = message]

Flash_Keep(f, key, message) ==
    IF message = "" THEN f ELSE [f EXCEPT !.keep[key] = message]

\* Flash.Remove(key)
Flash_Remove(f, key) ==
    [flashes |-> [f.flashes EXCEPT ![key] = ""],
     now |-> [f.now EXCEPT ![key] = ""],
     keep |-> [f.keep EXCEPT ![key] = ""]]

\* Flash.Clear()
Flash_Clear(f) == NewFlash

\* A MarshalJSON that also carries the messages of now.
MarshalJSON_WithNow(f) ==
    [Flashes |-> [k \in Keys |-> IF f.now[k] # "" THEN f.now[k]
                                 ELSE f.flashes[k]],
     Keep |-> f.keep]

\* Flash.MarshalJSON: the flash struct with the flashes and the keep map.
MarshalJSON(f) == [Flashes |-> f.flashes, Keep |-> f.keep]

\* An UnmarshalJSON that puts Flashes back into flashes.
UnmarshalJSON_Flashes(f, ff) ==
    [f EXCEPT !.flashes = ff.Flashes, !.keep = ff.Keep]

\* An UnmarshalJSON that drops Keep.
UnmarshalJSON_NoKeep(f, ff) == [f EXCEPT !.now = ff.Flashes]

\* Flash.UnmarshalJSON: Flashes goes to now, Keep to keep; flashes stays as
\* it is.
UnmarshalJSON(f, ff) == [f EXCEPT !.now = ff.Flashes, !.keep = ff.Keep]

\* A call on the Flash as the log keeps it: the Flash before the call and
\* what the call returned.
FlashCall(op, key, message, ret) ==
    [op |-> op, key |-> key, message |-> message, ret |-> ret,
     before |-> flash]

\* Whether the handler goes on with a call on key.
MayCall(key) ==
    /\ Len(log) < MaxCalls
    /\ key = "k" \/
          Cardinality({i \in 1..Len(log) : log[i].key = "j"}) < MaxOtherCalls

FlashInit ==
    /\ codecs = <<>>
    /\ now = 0
    /\ tok = NoToken
    /\ last = NoCall
    /\ resp = <<>>
    /\ mgr = NoManager
    /\ files = NoFiles
    /\ ids = 0
    /\ reg = NoSessions
    /\ served = <<>>
    /\ call = NoManagerCall
    /\ fsMutex = Unlocked
    /\ procs = NoProcs
    /\ flash = NewFlash
    /\ log = <<>>

FlashAdd(key, message) ==
    /\ MayCall(key)
    /\ flash' = Flash_Add(flash, key, message)
    /\ log' = Append(log, FlashCall("Add", key, message, ""))
    /\ UNCHANGED <<codecs, now, tok, last, resp, mvars, fsvars>>

FlashNow(key, message) ==
    /\ MayCall(key)
    /\ flash' = Flash_Now(flash, key, message)
    /\ log' = Append(log, FlashCall("Now", key, message, ""))
    /\ UNCHANGED <<codecs, now, tok, last, resp, mvars, fsvars>>

FlashKeep(key, message) ==
    /\ MayCall(key)
    /\ flash' = Flash_Keep(flash, key, message)
    /\ log' = Append(log, FlashCall("Keep", key, message, ""))
    /\ UNCHANGED <<codecs, now, tok, last, resp, mvars, fsvars>>

FlashGet(key) ==
    /\ MayCall(key)
    /\ flash' = Flash_Get(flash, key).flash
    /\ log' = Append(log, FlashCall("Get", key, "",
                                    Flash_Get(flash, key).message))
    /\ UNCHANGED <<codecs, now, tok, last, resp, mvars, fsvars>>

FlashRemove(key) ==
    /\ MayCall(key)
    /\ flash' = Flash_Remove(flash, key)
    /\ log' = Append(log, FlashCall("Remove", key, "", ""))
    /\ UNCHANGED <<codecs, now, tok, last, resp, mvars, fsvars>>

FlashClear ==
    /\ Len(log) < MaxCalls
    /\ flash' = Flash_Clear(flash)
    /\ log' = Append(log, FlashCall("Clear", "", "", ""))
    /\ UNCHANGED <<codecs, now, tok, last, resp, mvars, fsvars>>

\* The request ends and the next one begins: the Flash is serialized and
\* deserialized into a new Flash.
FlashRoundTrip ==
    /\ Len(log) < MaxCalls
    /\ flash' = UnmarshalJSON(NewFlash, MarshalJSON(flash))
    /\ log' = Append(log, FlashCall("RoundTrip", "", "", ""))
    /\ UNCHANGED <<codecs, now, tok, last, resp, mvars, fsvars>>

FlashNext ==
    \/ \E key \in Keys, message \in Messages \cup {""} : FlashAdd(key, message)
    \/ \E key \in Keys, message \in Messages \cup {""} : FlashNow(key, message)
    \/ \E key \in Keys, message \in Messages \cup {""} : FlashKeep(key, message)
    \/ \E key \in Keys : FlashGet(key)
    \/ \E key \in Keys : FlashRemove(key)
    \/ FlashClear
    \/ FlashRoundTrip

FlashSpec == FlashInit /\ [][FlashNext]_vars

-----------------------------------------------------------------------------
\* Claims on the flash messages (FlashSpec)

\* The i-th call stored a message under key k.
StoresUnder(i, k) ==
    /\ log[i].op \in {"Add", "Now", "Keep"}
    /\ log[i].key = k
    /\ log[i].message # ""

\* The i-th call is Get(k).
Gets(i, k) == log[i].op = "Get" /\ log[i].key = k

\* The i-th call is one that changes or reads what is held under key k.
Touches(i, k) ==
    \/ StoresUnder(i, k)
    \/ log[i].op \in {"Get", "Remove"} /\ log[i].key = k
    \/ log[i].op = "Clear"

\* The round trips between the i-th and the j-th call.
RoundTrips(i, j) ==
    Cardinality({l \in (i + 1)..(j - 1) : log[l].op = "RoundTrip"})

\* No call between the i-th and the j-th touches k, or stores under k.
Untouched(i, j, k) == \A l \in (i + 1)..(j - 1) : ~Touches(l, k)
NotStored(i, j, k) == \A l \in (i + 1)..(j - 1) : ~StoresUnder(l, k)

\* When the i-th call stored its message, no other message was held under
\* its key in a map that Get looks into before the map of the call.
Unshadowed(i) ==
    /\ log[i].op \in {"Add", "Keep"} =>
          log[i].before.now[log[i].key] \in {"", log[i].message}
    /\ log[i].op = "Keep" =>
          log[i].before.flashes[log[i].key] \in {"", log[i].message}

\* When the i-th call stored its message, no message was held under its
\* key in the maps that are serialized, other than the map of the call.
Alone(i) ==
    /\ log[i].op # "Keep" => log[i].before.keep[log[i].key] = ""
    /\ log[i].op # "Add" => log[i].before.flashes[log[i].key] = ""

C26_AddLifetime ==
    \A k \in Keys : \A i \in 1..Len(log), j \in 1..Len(log) :
        (/\ i < j
         /\ log[i].op = "Add" /\ StoresUnder(i, k)
         /\ Gets(j, k)) =>
            /\ (RoundTrips(i, j) = 1 /\ Untouched(i, j, k)) =>
                  log[j].ret = log[i].message
            /\ (RoundTrips(i, j) >= 2 /\ NotStored(i, j, k) /\ Alone(i)) =>
                  log[j].ret = ""

\* Add(k, m), a round trip, Get(k) returns m, a round trip, Get(k)
\* returns "".
C26_Witness ==
    /\ Len(log) = 5
    /\ log[1].op = "Add" /\ StoresUnder(1, "k")
    /\ log[2].op = "RoundTrip"
    /\ Gets(3, "k") /\ log[3].ret = log[1].message
    /\ log[4].op = "RoundTrip"
    /\ Gets(5, "k") /\ log[5].ret = ""

\* Add(k, m), two round trips without a Get, Get(k) returns "".
C26_Unread ==
    /\ Len(log) >= 4
    /\ log[1].op = "Add" /\ StoresUnder(1, "k")
    /\ log[2].op = "RoundTrip"
    /\ log[3].op = "RoundTrip"
    /\ Gets(4, "k") /\ log[4].ret = ""

\* C27: a message stored with Now(k, m) is not serialized: one or more
\* round trips after the Now, Get(k) returns the empty string (when no
\* message is stored under k after the Now and none was held under k in
\* flashes or keep).
C27_NowLifetime ==
    \A k \in Keys : \A i \in 1..Len(log), j \in 1..Len(log) :
        (/\ i < j
         /\ log[i].op = "Now" /\ StoresUnder(i, k) /\ Alone(i)
         /\ Gets(j, k)
         /\ RoundTrips(i, j) >= 1
         /\ NotStored(i, j, k)) =>
            log[j].ret = ""

\* Now(k, m), a round trip, Get(k) returns "".
C27_Witness ==
    \E i \in 1..Len(log) :
        /\ i + 2 <= Len(log)
        /\ log[i].op = "Now" /\ StoresUnder(i, "k") /\ Alone(i)
        /\ log[i + 1].op = "RoundTrip"
        /\ Gets(i + 2, "k") /\ log[i + 2].ret = ""

C28_Removed ==
    /\ Len(log) = 5
    /\ log[1].op = "Keep" /\ StoresUnder(1, "k")
    /\ log[2].op = "RoundTrip"
    /\ log[3].op = "RoundTrip"
    /\ log[4].op = "Remove" /\ log[4].key = "k"
    /\ Gets(5, "k") /\ log[5].ret = ""

-----------------------------------------------------------------------------
\* Malformed tokens and the time source (Spec)

\* The outer layer of a token is malformed: it is not base64, or what it
\* decodes to has fewer than two separators.
Malformed(src) ==
    \/ decode(src).err # nil
    \/ Len(SplitN3(decode(src).data)) # 3

\* C29: Decode of a token within the length bound whose outer layer is
\* malformed returns ErrHMACIsInvalid.
C29_MalformedIsInvalid ==
    (/\ last.op = "Decode"
     /\ codecs[last.codec].err = nil
     /\ ~lengthExceeded(codecs[last.codec], Presented)
     /\ Malformed(Presented)) =>
        last.err = ErrHMACIsInvalid

\* Decode of a token that is base64 but has fewer than two separators
\* returns ErrHMACIsInvalid.
C29_TooFewSeparators ==
    /\ last.op = "Decode"
    /\ decode(Presented).err = nil
    /\ Len(SplitN3(decode(Presented).data)) = 2
    /\ last.err = ErrHMACIsInvalid

\* How often a call read the time source.
TimeReads(steps) ==
    Cardinality({i \in 1..Len(steps) : steps[i] = "timestamp"})

\* C30: a successful Encode reads the time source once and the token carries
\* the value read as its timestamp; a Decode reads it at most once, and
\* only when the token is within the length bound, its MAC is right and
\* its timestamp is a number, after these three checks.
C30_TimeSourceUse ==
    /\ (last.op = "Encode" /\ last.err = nil) =>
          /\ TimeReads(last.steps) = 1
          /\ SplitN3(decode(tok.data).data)[1] = FormatInt(last.t)
    /\ last.op = "Decode" =>
          /\ TimeReads(last.steps) <= 1
          /\ TimeReads(last.steps) = 1 =>
                /\ ~lengthExceeded(codecs[last.codec], Presented)
                /\ decodeAuthentic(codecs[last.codec], last.name,
                                   Presented).err = nil
                /\ ParseInt(SplitN3(decode(Presented).data)[1]).err = nil
                /\ SubSeq(last.steps, 1, 6) =
                      <<"length", "decode", "split", "mac", "parse",
                        "timestamp">>

\* Decode of a token with the right MAC and a timestamp that is not a
\* number: rejected without reading the time source.
C30_Witness ==
    /\ last.op = "Decode"
    /\ decodeAuthentic(codecs[last.codec], last.name, Presented).err = nil
    /\ last.err = ErrTimestampIsInvalid
    /\ TimeReads(last.steps) = 0

\* Decode of an issued token that has expired: the time source was read
\* once.
C30_ReadOnce ==
    /\ last.op = "Decode"
    /\ last.err = ErrTimestampIsExpired
    /\ TimeReads(last.steps) = 1

\* Decode of a token over the length bound, and of a forged token: the
\* time source was not read.
C30_OverLong ==
    /\ last.op = "Decode"
    /\ last.err = ErrEncodedLengthTooLong
    /\ TimeReads(last.steps) = 0

C30_Forged ==
    /\ last.op = "Decode"
    /\ tok.kind = "forged"
    /\ last.err = ErrHMACIsInvalid
    /\ TimeReads(last.steps) = 0

\* A successful Encode at a time after the start of the clock.
C30_Encoded ==
    /\ last.op = "Encode" /\ last.err = nil
    /\ last.t = MaxTime
    /\ TimeReads(last.steps) = 1


----------------------------------------------------------------------------
\* The length bound of Encode.

\* The token the last Encode made, whether or not it was returned: what the
\* codec's steps 1 to 4 produce from the arguments of the call.
Produced(c) ==
    Encode([c EXCEPT !.maxLength = 0], last.name, last.src, last.t,
           IF c.block # NoBlock THEN CHOOSE iv \in IVs : iv # NoIV ELSE NoIV).data

\* C31: an Encode of a codec with maxLength # 0 returns a token only if the
\* token is at most maxLength long, and returns ErrEncodedLengthTooLong and
\* no token when the token it made is longer; no token a codec's Encode
\* returned is rejected for its length by the Decode of the same codec; and
\* an Encode of a codec with maxLength = 0 never fails for length.
C31_EncodeLengthBound ==
    /\ last.op = "Encode" =>
          LET c == codecs[last.codec] IN
          /\ (last.issued /\ c.maxLength # 0) => Len(tok.data) <= c.maxLength
          /\ (c.maxLength # 0 /\ last.steps # <<>>
                /\ last.steps[Len(last.steps)] = "length"
                /\ Len(Produced(c)) > c.maxLength)
                => (last.err = ErrEncodedLengthTooLong /\ ~last.issued)
          /\ c.maxLength = 0 => ~Is(last.err, ErrEncodedLengthTooLong)
    /\ (last.op = "Decode" /\ tok.kind = "issued" /\ tok.by = last.codec
          /\ Presented = tok.data)
          => ~Is(last.err, ErrEncodedLengthTooLong)

\* A length-limited codec refused to return the token it made.
C31_Witness ==
    /\ last.op = "Encode"
    /\ codecs[last.codec].maxLength # 0
    /\ Len(Produced(codecs[last.codec])) > codecs[last.codec].maxLength
    /\ last.err = ErrEncodedLengthTooLong
    /\ ~last.issued

\* A length-limited codec decoded a token it had issued.
C31_Accepted ==
    /\ last.op = "Decode"
    /\ tok.kind = "issued"
    /\ tok.by = last.codec
    /\ Presented = tok.data
    /\ codecs[last.codec].maxLength # 0
    /\ last.err = nil

\* A codec without a length limit encoded a token longer than the limit of
\* the other codec of its list.
C31_Unlimited ==
    /\ last.op = "Encode"
    /\ codecs[last.codec].maxLength = 0
    /\ last.issued
    /\ \E i \in 1..Len(codecs) :
          codecs[i].maxLength # 0 /\ Len(tok.data) > codecs[i].maxLength

----------------------------------------------------------------------------
\* Failing Saves of the built-in stores.

\* The last manager call was a Save of a FileSystemStore that writes (the
\* session's max-age is positive).
FileWriting ==
    /\ call.op \in {"Save", "Delete"}
    /\ mgr.store = "FileSystemStore"
    /\ call.given.options.MaxAge > 0

\* What proxy.Encode(proxy.Values) returned in the last Save.
EncodedValues ==
    ProxyEncode(codecs, call.given.options.Name, call.given.Values, call.t,
                NoIVs)

\* The record of the session of the last Save, before and after the call.
RecordID == IF call.proxy.ID # <<>> THEN call.proxy.ID ELSE call.given.ID
RecordIn(fls) ==
    IF fileName(RecordID) \in DOMAIN fls THEN <<fls[fileName(RecordID)]>>
    ELSE <<>>

\* C32: a FileSystemStore with maxFileSize > 0 answers the Save of a session
\* whose encoded values are longer than maxFileSize with
\* ErrEncodedLengthTooLong, leaves the files as they were and writes no
\* cookie; with maxFileSize <= 0, and for encoded values within the limit,
\* the Save does not fail for the size and writes the record whenever the
\* file system works. (The Save is one that encodes the values: max-age
\* > 0 and an Encode that succeeds.)
C32_FileSizeLimit ==
    (FileWriting /\ EncodedValues.err = nil) =>
        /\ (mgr.maxFileSize > 0 /\ Len(EncodedValues.data) > mgr.maxFileSize)
              => /\ call.err = ErrEncodedLengthTooLong
                 /\ files = call.filesBefore
                 /\ call.cookies = <<>>
        /\ (mgr.maxFileSize <= 0 \/ Len(EncodedValues.data) <= mgr.maxFileSize)
              => /\ ~Is(call.err, ErrEncodedLengthTooLong)
                 /\ call.disk => RecordIn(files) = <<EncodedValues.data>>

\* A session with a record was saved with values too long for the store:
\* the Save failed and the record is the old one.
C32_Witness ==
    /\ FileWriting
    /\ EncodedValues.err = nil
    /\ mgr.maxFileSize > 0
    /\ Len(EncodedValues.data) > mgr.maxFileSize
    /\ call.err = ErrEncodedLengthTooLong
    /\ call.given.ID # <<>>
    /\ RecordIn(call.filesBefore) # <<>>
    /\ RecordIn(files) = RecordIn(call.filesBefore)

\* A store with a size limit wrote a record within the limit, and a store
\* without one wrote a record longer than the other store's limit.
C32_WithinLimit ==
    /\ FileWriting
    /\ mgr.maxFileSize > 0
    /\ call.err = nil
    /\ RecordIn(files) = <<EncodedValues.data>>

C32_NoLimit ==
    /\ FileWriting
    /\ mgr.maxFileSize = 0
    /\ call.err = nil
    /\ Len(EncodedValues.data) > 30
    /\ RecordIn(files) = <<EncodedValues.data>>

\* The step is a store's Save returning: Session.Save or Session.Delete.
SaveReturns == call.op = "none" /\ call'.op \in {"Save", "Delete"}

\* C33: a Save of CookieStore or FileSystemStore that returns an error has
\* added no cookie to the response; a Save that returns nil has added one
\* cookie, and no Save adds more than one.
C33_NoCookieOnFailure ==
    [][SaveReturns =>
          /\ call'.err # nil => (resp' = resp /\ call'.cookies = <<>>)
          /\ call'.err = nil =>
                (Len(call'.cookies) = 1 /\ resp' = resp \o call'.cookies)]_vars

\* A FileSystemStore Save without response writer: the record was written,
\* the call failed and the response has no cookie.
C33_Witness ==
    /\ call.op = "Save"
    /\ mgr.store = "FileSystemStore"
    /\ ~call.w
    /\ call.err = ErrNoResponseWriter
    /\ files # call.filesBefore
    /\ call.cookies = <<>>
    /\ resp = <<>>

\* The other failures: no codecs, an Encode that fails for length, a record
\* too long for the store, a file system that fails, each in a request whose
\* response stays without cookie; and a Save that returned nil.
C33_NoCodecs ==
    call.op = "Save" /\ call.err = ErrNoCodecs /\ resp = <<>>

C33_EncodeFailed ==
    /\ call.op = "Save"
    /\ mgr.store = "CookieStore"
    /\ call.w
    /\ Is(call.err, ErrEncodedLengthTooLong)
    /\ resp = <<>>

C33_FileTooLong ==
    /\ call.op = "Save"
    /\ mgr.store = "FileSystemStore"
    /\ mgr.maxFileSize > 0
    /\ call.w
    /\ call.err = ErrEncodedLengthTooLong
    /\ resp = <<>>

C33_DiskFailed ==
    /\ call.op \in {"Save", "Delete"}
    /\ call.w
    /\ call.err = PathError
    /\ resp = <<>>

C33_Saved ==
    call.op = "Save" /\ call.err = nil /\ Len(resp) = 1 /\ resp = call.cookies

\* C34: when FileSystemStore.Save returns an error, the record of the
\* session's ID is what it was before the call: none was created,
\* overwritten or removed.
C34_RecordUnchangedOnFailure ==
    (call.op \in {"Save", "Delete"} /\ mgr.store = "FileSystemStore"
        /\ call.err # nil)
        => RecordIn(files) = RecordIn(call.filesBefore)

\* The failures that come before the file is touched leave the record as it
\* was: an Encode of the values that fails, a record over maxFileSize, a
\* file system that fails.
C34_EarlyFailure ==
    (call.op \in {"Save", "Delete"} /\ mgr.store = "FileSystemStore"
        /\ call.err # nil /\ call.err # ErrNoResponseWriter)
        => files = call.filesBefore

\* A failed Save created a record, overwrote one, and removed one.
C34_Created ==
    /\ call.op = "Save" /\ mgr.store = "FileSystemStore" /\ call.err # nil
    /\ RecordIn(call.filesBefore) = <<>> /\ RecordIn(files) # <<>>

C34_Overwritten ==
    /\ call.op = "Save" /\ mgr.store = "FileSystemStore" /\ call.err # nil
    /\ RecordIn(call.filesBefore) # <<>> /\ RecordIn(files) # <<>>
    /\ RecordIn(call.filesBefore) # RecordIn(files)

C34_Removed ==
    /\ call.op \in {"Save", "Delete"} /\ mgr.store = "FileSystemStore"
    /\ call.err # nil
    /\ RecordIn(call.filesBefore) # <<>> /\ RecordIn(files) = <<>>

-----------------------------------------------------------------------------
\* One record per session (RegistrySpec)

\* The record ID a cookie of the session "c" names.
CookieID(c) ==
    ProxyDecode(<<NewCodec(K1, <<>>)>>, NameC, c.Value, now).value.s

\* The cookies of the response for the session "c".
CookiesOfC == {i \in 1..Len(resp) : resp[i].Name = NameC}

\* sessions.Save returned, the session "c" of the request began without a
\* cookie, and its Save had returned nil once before in the request.
SavedTwice ==
    /\ call.op = "Save"
    /\ NameC \in DOMAIN call.regBefore
    /\ call.regBefore[NameC].storeKey = <<>>
    /\ \E i \in CookiesOfC : i <= Len(resp) - Len(call.cookies)
    /\ \E i \in 1..Len(call.saved) :
          call.saved[i].name = NameC /\ call.saved[i].err = nil

\* C35: when a session that began without a cookie is saved twice in one
\* request through a FileSystemStore (session.Save, then sessions.Save),
\* the second Save creates no further record and every cookie issued for
\* the session names the same record.
C35_OneRecordPerSession ==
    SavedTwice =>
        /\ DOMAIN files = DOMAIN call.filesBefore
        /\ \A i, j \in CookiesOfC : CookieID(resp[i]) = CookieID(resp[j])

\* Each Save of such a session made a record of its own, and the response
\* carries two cookies that name different records.
C35_TwoRecords ==
    /\ SavedTwice
    /\ DOMAIN files # DOMAIN call.filesBefore
    /\ \E i, j \in CookiesOfC :
          /\ CookieID(resp[i]) # CookieID(resp[j])
          /\ fileName(CookieID(resp[i])) \in DOMAIN files
          /\ fileName(CookieID(resp[j])) \in DOMAIN files

-----------------------------------------------------------------------------
\* Revocation of file-stored sessions (ManagerSpec)

\* What the cookie of the request names: the result of decoding it into
\* proxy.ID at the time of the request.
CookieNames == ProxyDecode(codecs, SessionName, tok.data, now)

\* The step is a Get that goes to the FileSystemStore with a cookie that
\* is valid and names a record that is not there.
GetRevoked ==
    /\ call.op = "none"
    /\ call'.op = "Get"
    /\ ~call'.registered
    /\ mgr.store = "FileSystemStore"
    /\ tok.kind # "none"
    /\ CookieNames.err = nil
    /\ fileName(CookieNames.value.s) \notin DOMAIN files

\* C36: with a FileSystemStore, a Save with max-age <= 0 whose fs.delete
\* succeeded leaves no record under the session's ID; a record appears
\* only under the ID of a Save with max-age > 0; and a Get that presents a
\* valid cookie for an ID without record returns an error (the file is not
\* there, or the file system fails), returns no session and registers none.
C36_Revocation ==
    [][/\ (SaveReturns /\ mgr.store = "FileSystemStore"
             /\ call'.given.options.MaxAge <= 0 /\ call'.disk)
          => fileName(call'.given.ID) \notin DOMAIN files'
       /\ \A n \in DOMAIN files' \ DOMAIN files :
             /\ SaveReturns
             /\ call'.given.options.MaxAge > 0
             /\ n = fileName(call'.proxy.ID)
       /\ GetRevoked
          => /\ call'.err \in {ErrNotExist, PathError}
             /\ ~call'.returned
             /\ call'.session = Session(NoProxy)
             /\ reg' = reg]_vars

\* A session was saved to a file and deleted by a Save that returned nil; a
\* request that then presented a copy of its cookie, still inside the age
\* window, got an error and no session.
C36_Witness ==
    /\ mgr.store = "FileSystemStore"
    /\ call.op = "Get"
    /\ tok.kind = "replayed"
    /\ Len(served) = 2
    /\ Deleting(LastCookie(served[2]))
    /\ tok.data = LastCookie(served[1]).Value
    /\ ProxyDecode(codecs, SessionName, tok.data, call.t).err = nil
    /\ call.err = ErrNotExist
    /\ ~call.returned
    /\ SessionName \notin DOMAIN reg

-----------------------------------------------------------------------------
\* The options of a session (ManagerSpec)

\* The options o with the max-age a.
WithAge(o, a) == [o EXCEPT !.MaxAge = a]

\* The session of the request is the same object before and after the step.
SameSession == SessionName \in DOMAIN reg /\ SessionName \in DOMAIN reg'

\* The step is one of Session.Expire, DoNotPersist and Persist: no manager
\* call returns, nothing is written.
OptionCall == call' = call /\ files' = files /\ resp' = resp /\ tok' = tok

\* C37: no step changes the options the manager was configured with; a step
\* changes of the options of a session at most the max-age, and only when
\* it is Expire, DoNotPersist or Persist (to -1, to 0, to the max-age
\* given) or Delete (to -1), never when it is a Save; and a Get that builds
\* a session gives it the options of the manager, whatever was done to the
\* sessions of earlier requests.
C37_OptionsPrivate ==
    [][/\ mgr'.options = mgr.options
       /\ SameSession =>
             /\ reg'[SessionName].options
                   = WithAge(reg[SessionName].options,
                             reg'[SessionName].options.MaxAge)
             /\ reg'[SessionName].options.MaxAge
                   # reg[SessionName].options.MaxAge
                => \/ OptionCall
                      /\ reg'[SessionName].options.MaxAge
                            \in {-1, 0} \cup PersistAges
                   \/ call'.op = "Delete"
                      /\ reg'[SessionName].options.MaxAge = -1
       /\ (call.op = "none" /\ call'.op = "Get" /\ ~call'.registered
             /\ call'.returned)
          => call'.session.options = mgr.options]_vars

\* A session was persisted for 60 seconds and saved in the first request;
\* the session the manager built for the second request has the options of
\* the manager again.
C37_Witness ==
    /\ call.op = "Get"
    /\ ~call.registered
    /\ call.returned
    /\ Len(served) = 1
    /\ served[1] # <<>>
    /\ LastCookie(served[1]).MaxAge = 60
    /\ mgr.options.MaxAge # 60
    /\ call.session.options = mgr.options
    /\ reg[SessionName].options = mgr.options

\* A Save on the delete branch of the FileSystemStore left the max-age 0 of
\* the session as it was.
C37_SaveKeeps ==
    /\ call.op = "Save"
    /\ mgr.store = "FileSystemStore"
    /\ call.err = nil
    /\ Deleting(LastCookie(call.cookies))
    /\ reg[SessionName].options.MaxAge = 0

-----------------------------------------------------------------------------
\* What Flash.Get discards (FlashSpec)

\* The Flash after the i-th call.
FlashAfter(i) == IF i = Len(log) THEN flash ELSE log[i + 1].before

\* The messages the i-th call removed from the Flash: those stored under a
\* key in one of the three maps before the call and not after it.
RemovedBy(i) ==
    UNION {{log[i].before.now[k] : k \in {k \in Keys : FlashAfter(i).now[k] = ""}},
           {log[i].before.flashes[k] :
               k \in {k \in Keys : FlashAfter(i).flashes[k] = ""}},
           {log[i].before.keep[k] :
               k \in {k \in Keys : FlashAfter(i).keep[k] = ""}}} \ {""}

\* C38: every message a Get removes from the Flash is the message that Get
\* returned.
C38_GetDiscardsReturned ==
    \A i \in 1..Len(log) :
        log[i].op = "Get" => RemovedBy(i) \subseteq {log[i].ret}

\* A Get never touches another key, and a Get that finds nothing removes
\* nothing.
C38_OtherKeys ==
    \A i \in 1..Len(log) :
        log[i].op = "Get" =>
           /\ \A k \in Keys \ {log[i].key} :
                 /\ FlashAfter(i).now[k] = log[i].before.now[k]
                 /\ FlashAfter(i).flashes[k] = log[i].before.flashes[k]
                 /\ FlashAfter(i).keep[k] = log[i].before.keep[k]
           /\ log[i].ret = "" => FlashAfter(i) = log[i].before

\* A Keep message was dropped by a Get that returned the Now message stored
\* under the same key.
C38_KeepDropped ==
    /\ Len(log) = 3
    /\ log[1].op = "Keep" /\ log[1].key = "k" /\ log[1].message = "x"
    /\ log[2].op = "Now" /\ log[2].key = "k" /\ log[2].message = "m"
    /\ log[3].op = "Get" /\ log[3].key = "k" /\ log[3].ret = "m"
    /\ flash.keep["k"] = ""

-----------------------------------------------------------------------------
\* Release of fsMutex (FileFairSpec)

\* The steps of goroutine g inside read, write or delete.
FileStep(g) ==
    \/ WriteTooLong(g)
    \/ MutexLock(g)
    \/ \E disk \in BOOLEAN : OsStart(g, disk)
    \/ OsReturn(g)
    \/ MutexUnlock(g)

\* FileSpec under fair scheduling: a goroutine that can take a step inside
\* a file operation takes it in the end (the scheduler runs every runnable
\* goroutine, and a call of the os package returns), and a goroutine that
\* waits for fsMutex gets it when it is released again and again
\* (sync.Mutex hands the lock to a waiter that has waited too long).
FileFairSpec ==
    /\ FileSpec
    /\ \A g \in Goroutines :
          /\ WF_vars(WriteTooLong(g))
          /\ SF_vars(MutexLock(g))
          /\ WF_vars(\E disk \in BOOLEAN : OsStart(g, disk))
          /\ WF_vars(OsReturn(g))
          /\ WF_vars(MutexUnlock(g))

\* Goroutine g is inside read, write or delete.
Inside(g) == procs[g].pc # "idle"

\* C39: a goroutine holds fsMutex only between its Lock and its return,
\* whether the os call succeeded or failed; it takes fsMutex only when
\* nobody, itself included, holds it; whenever a goroutine is inside a file
\* operation some goroutine inside one can take a step (no deadlock); and
\* under fair scheduling every file operation returns.
C39_LockRelease ==
    /\ [](\A g \in Goroutines :
             fsMutex = g <=> procs[g].pc \in {"locked", "os", "returned"})
    /\ [][\A g \in Goroutines :
             (fsMutex' = g /\ fsMutex # g) => fsMutex = Unlocked]_vars
    /\ []((\E g \in Goroutines : Inside(g))
             => \E g \in Goroutines : ENABLED FileStep(g))
    /\ \A g \in Goroutines : Inside(g) ~> ~Inside(g)

\* The os call of one goroutine failed; it holds fsMutex, is about to
\* return, and the other goroutine waits for fsMutex.
C39_Witness ==
    \E g \in Goroutines, h \in Goroutines :
        /\ g # h
        /\ procs[g].pc = "returned"
        /\ procs[g].err = PathError
        /\ fsMutex = g
        /\ procs[h].pc = "called"
        /\ ~ENABLED FileStep(h)
====
